---- MODULE Spec2Model ----
(***************************************************************************)
(* Streaming question-answering pipeline of ai-agent-framework.            *)
(*                                                                         *)
(*   agent/agent/ticket_agent.py   ServiceTicketAgent.ask / ask_stream     *)
(*   agent/http_service.py         /stream and /chat endpoints             *)
(*   server/.../conversations/views.py   create_message_stream (relay)     *)
(*   server/.../dao/conversation_dao.py  ConversationDAO / MessageDAO      *)
(*                                                                         *)
(* Texts are sequences of one-character strings, so that concatenation,    *)
(* slicing and stripping are computed as Python computes them.             *)
(***************************************************************************)
EXTENDS Integers, Sequences, FiniteSets, TLC

VARIABLES
    agent_instance,  \* http_service.agent_instance: "None" or "ready"
    kind,            \* which entry point the agent is serving
    question,        \* the question of the current agent run
    pc,              \* position of the current agent run
    events,          \* events yielded by ask_stream, in order
    sse,             \* lines written by /stream's event_generator, in order
    source_docs,     \* ask_stream's source_docs
    prompt_docs,     \* documents the chain formatted into the prompt
    full_answer,     \* ask_stream's full_answer
    calls,           \* collaborator calls made during the current run
    ask_result,      \* the dict returned by ask
    sess,            \* per relay invocation: the locals of create_message_stream
    db_messages,     \* committed rows of the message table
    conv_title,      \* committed title of each conversation
    next_id,         \* the message table's id sequence
    title_calls,     \* title syntheses started so far, per conversation
    conv_owner,      \* the conversation table: the owner of each row
    next_conv,       \* the conversation table's id sequence
    reply            \* the last response of a conversation endpoint

engVars == <<agent_instance, kind, question, pc, events, sse, source_docs,
             prompt_docs, full_answer, calls, ask_result>>
storeVars == <<conv_owner, next_conv, reply>>
relayVars == <<sess, db_messages, conv_title, next_id, title_calls, storeVars>>
vars == <<agent_instance, kind, question, pc, events, sse, source_docs,
          prompt_docs, full_answer, calls, ask_result,
          sess, db_messages, conv_title, next_id, title_calls,
          conv_owner, next_conv, reply>>

----------------------------------------------------------------------------
(* Bounds of the model *)

MaxQLen == 2
MaxDocs == 2
MaxTokens == 2

(* AgentErrorCode *)
AGENT_ERROR == 2000
RAG_RETRIEVAL_ERROR == 2001
LLM_CALL_ERROR == 2002
NO_RELEVANT_RESULTS == 2005
QUESTION_FORMAT_ERROR == 2006
SUCCESS == 0
SourcesCap == 5

----------------------------------------------------------------------------
(* Text helpers *)

Min(a, b) == IF a < b THEN a ELSE b

Whitespace == {" "}
QChars == {" ", "a"}

SeqsUpTo(S, n) == UNION {[1..k -> S] : k \in 0..n}

\* Python's None, kept apart from every text
None == <<"<None>">>

RECURSIVE LStrip(_)
LStrip(s) ==
    IF s = <<>> THEN s
    ELSE IF Head(s) \in Whitespace THEN LStrip(Tail(s)) ELSE s

RECURSIVE RStrip(_)
RStrip(s) ==
    IF s = <<>> THEN s
    ELSE IF s[Len(s)] \in Whitespace THEN RStrip(SubSeq(s, 1, Len(s) - 1)) ELSE s

\* str.strip()
Strip(s) == RStrip(LStrip(s))

\* Python truthiness of a str-or-None value
Truthy(s) == s # None /\ s # <<>>

Questions == SeqsUpTo(QChars, MaxQLen) \cup {None}

----------------------------------------------------------------------------
(* Collaborators: what a call to the embedder, the vector store, the chain  *)
(* builder and the chat model can do.                                       *)

DocIds == 1..MaxDocs

\* a result list longer than the sources shown
ManyDocs == [i \in 1..(SourcesCap + 1) |-> i]

DocLists == {d \in SeqsUpTo(DocIds, MaxDocs) :
                \A i, j \in 1..Len(d) : i # j => d[i] # d[j]}
            \cup {ManyDocs}

\* an optional number: a value, or Python's None
NoValue == [present |-> FALSE, value |-> 0]
Num(n) == [present |-> TRUE, value |-> n]

\* metadata['distance'] of the documents in the store, for the query: document
\* 1 matches it exactly, document 2 comes back without metadata, the others
\* lie one unit away
DistanceOf(d) ==
    CASE d = 1 -> Num(0)
      [] d = 2 -> NoValue
      [] OTHER -> Num(1)

\* "1 - distance if distance else None": the condition is Python truthiness
Score(distance) ==
    IF distance.present /\ distance.value # 0
    THEN Num(1 - distance.value)
    ELSE NoValue

\* the score of each document, in the order retrieved
Scores(docs) == [i \in 1..Len(docs) |-> Score(DistanceOf(docs[i]))]

\* outcome of one _search_similar_documents call
SearchOutcomes ==
    {[fail |-> "embed", docs |-> <<>>], [fail |-> "search", docs |-> <<>>]}
    \cup {[fail |-> "no", docs |-> d] : d \in DocLists}

\* a chunk of qa_chain.astream: a str, or an object that str() renders
Chunks == {[isstr |-> TRUE, text |-> <<"x">>], [isstr |-> FALSE, text |-> <<"y">>]}

\* the collaborator calls of a run: what each _search_similar_documents call
\* did, whether the chat model was called, the chunks it streamed and whether
\* its stream raised
NoCalls == [searches |-> <<>>, llm |-> 0, chunks |-> <<>>, gen_failed |-> FALSE]

\* _search_similar_documents: embed_query, then near_vector
SearchCalls(c, o) == [c EXCEPT !.searches = Append(@, o)]

\* `if not source_docs`
NoDocsNever(docs) == FALSE
NoDocs(docs) == docs = <<>>

----------------------------------------------------------------------------
(* Events of ask_stream *)

Ev(t) == [type |-> t, status |-> "", items |-> <<>>, scores |-> <<>>,
          count |-> 0, token |-> <<>>, answer |-> <<>>, retrieved_docs |-> 0,
          code |-> 0]

EvThinking(st) == [Ev("thinking") EXCEPT !.status = st]
\* the count is that of the items shown
EvSourcesShownCount(docs) ==
    [Ev("sources") EXCEPT !.items = SubSeq(docs, 1, Min(Len(docs), SourcesCap)),
                          !.scores = SubSeq(Scores(docs), 1, Min(Len(docs), SourcesCap)),
                          !.count = Min(Len(docs), SourcesCap)]

\* lines 361-378
EvSources(docs) ==
    [Ev("sources") EXCEPT !.items = SubSeq(docs, 1, Min(Len(docs), SourcesCap)),
                          !.scores = SubSeq(Scores(docs), 1, Min(Len(docs), SourcesCap)),
                          !.count = Len(docs)]
EvToken(tok) == [Ev("token") EXCEPT !.token = tok]
\* the metadata counts the documents shown
EvDoneShown(ans, docs) ==
    [Ev("done") EXCEPT !.answer = ans,
                       !.retrieved_docs = Min(Len(docs), SourcesCap)]

\* lines 417-429
EvDone(ans, docs) == [Ev("done") EXCEPT !.answer = ans, !.retrieved_docs = Len(docs)]
EvError(c) == [Ev("error") EXCEPT !.code = c]

Terminal == {"done", "error"}

\* http_service.event_generator: "event: <type>\n", then "data: <json>\n\n",
\* which is a data line and the empty line that ends the block
SseLines(e) == <<[line |-> "event", type |-> e.type, data |-> Ev("")],
                 [line |-> "data", type |-> "", data |-> e],
                 [line |-> "blank", type |-> "", data |-> Ev("")]>>

NTerminal(seq) == Cardinality({i \in 1..Len(seq) : seq[i].type \in Terminal})

\* every event is written to the wire twice
EmitTwice(e) ==
    /\ events' = Append(events, e)
    /\ sse' = IF kind = "stream_chat" /\ NTerminal(events) = 0
              THEN sse \o SseLines(e) \o SseLines(e)
              ELSE sse

\* an event yielded by ask_stream reaches the caller and, under /stream, the
\* wire, until event_generator has left its loop after a done or an error
\* (no step of ask_stream lets an exception out, so the handler of
\* http_service.py lines 92-99 has nothing to catch)
Emit(e) ==
    /\ events' = Append(events, e)
    /\ sse' = IF kind = "stream_chat" /\ NTerminal(events) = 0
              THEN sse \o SseLines(e)
              ELSE sse

----------------------------------------------------------------------------
(* ServiceTicketAgent.ask_stream and /stream *)

\* "not question or not question.strip()"
IsBlankNoStrip(q) == ~Truthy(q)
IsBlank(q) == ~Truthy(q) \/ ~Truthy(Strip(q))

Begin(k, q) ==
    /\ kind = "none"
    /\ kind' = k
    /\ question' = q
    /\ events' = <<>>
    /\ sse' = <<>>
    /\ source_docs' = <<>>
    /\ prompt_docs' = <<>>
    /\ full_answer' = <<>>
    /\ calls' = NoCalls
    /\ ask_result' = [code |-> -1]

\* a caller iterates agent.ask_stream(question) on the constructed instance
CallAskStream ==
    \E q \in Questions :
        /\ agent_instance = "ready"
        /\ Begin("ask_stream", q)
        /\ pc' = "validate"
        /\ UNCHANGED <<agent_instance, relayVars>>

\* POST /stream: ChatRequest.question is a str
StreamChat ==
    \E q \in Questions \ {None} :
        /\ Begin("stream_chat", q)
        /\ pc' = "get_agent"
        /\ UNCHANGED <<agent_instance, relayVars>>

\* POST /chat
Chat ==
    \E q \in Questions \ {None} :
        /\ Begin("chat", q)
        /\ pc' = "get_agent"
        /\ UNCHANGED <<agent_instance, relayVars>>

\* get_agent(): the singleton is built on first use; ServiceTicketAgent()
\* connects to Weaviate and builds the index, and raises when that fails.
\* Both endpoints call it outside their try block.
GetAgent ==
    /\ pc = "get_agent"
    /\ \/ /\ agent_instance = "ready"
          /\ pc' = "validate"
          /\ UNCHANGED agent_instance
       \/ /\ agent_instance = "None"
          /\ agent_instance' = "ready"
          /\ pc' = "validate"
       \/ /\ agent_instance = "None"
          /\ pc' = "raised"
          /\ UNCHANGED agent_instance
    /\ UNCHANGED <<kind, question, events, sse, source_docs, prompt_docs,
                   full_answer, calls, ask_result, relayVars>>

Streaming == kind \in {"ask_stream", "stream_chat"}

\* lines 316-332: validation, then the first thinking event
Validate ==
    /\ Streaming /\ pc = "validate"
    /\ IF IsBlank(question)
       THEN Emit(EvError(QUESTION_FORMAT_ERROR)) /\ pc' = "finished"
       ELSE Emit(EvThinking("retrieving")) /\ pc' = "retrieve"
    /\ UNCHANGED <<agent_instance, kind, question, source_docs, prompt_docs,
                   full_answer, calls, ask_result, relayVars>>

\* lines 334-378: retrieval, the empty check, the sources event
Retrieve ==
    /\ Streaming /\ pc = "retrieve"
    /\ \E o \in SearchOutcomes :
        /\ calls' = SearchCalls(calls, o)
        /\ IF o.fail # "no"
           THEN /\ Emit(EvError(RAG_RETRIEVAL_ERROR))
                /\ pc' = "finished"
                /\ UNCHANGED source_docs
           ELSE /\ source_docs' = o.docs
                /\ IF NoDocs(o.docs)
                   THEN Emit(EvError(NO_RELEVANT_RESULTS)) /\ pc' = "finished"
                   ELSE Emit(EvSources(o.docs)) /\ pc' = "thinking2"
    /\ UNCHANGED <<agent_instance, kind, question, prompt_docs, full_answer,
                   ask_result, relayVars>>

ThinkingGeneratingSilent ==
    /\ Streaming /\ pc = "thinking2"
    /\ pc' = "setup_chain"
    /\ UNCHANGED <<agent_instance, kind, question, events, sse, source_docs,
                   prompt_docs, full_answer, calls, ask_result, relayVars>>

\* lines 383-386
ThinkingGenerating ==
    /\ Streaming /\ pc = "thinking2"
    /\ Emit(EvThinking("generating"))
    /\ pc' = "setup_chain"
    /\ UNCHANGED <<agent_instance, kind, question, source_docs, prompt_docs,
                   full_answer, calls, ask_result, relayVars>>

\* line 389: _setup_qa_chain(); a fault here reaches the outer except
SetupChain ==
    /\ Streaming /\ pc = "setup_chain"
    /\ \/ /\ pc' = "chain_retrieve"
          /\ UNCHANGED <<events, sse>>
       \/ /\ Emit(EvError(AGENT_ERROR))
          /\ pc' = "finished"
    /\ UNCHANGED <<agent_instance, kind, question, source_docs, prompt_docs,
                   full_answer, calls, ask_result, relayVars>>

\* qa_chain.astream(question) first runs retrieve_and_format, which searches
\* again; it runs inside the try block of the generation (lines 392-440)
ChainRetrieve ==
    /\ Streaming /\ pc = "chain_retrieve"
    /\ \E o \in SearchOutcomes :
        /\ calls' = [SearchCalls(calls, o) EXCEPT
                        !.llm = IF o.fail = "no" THEN @ + 1 ELSE @]
        /\ IF o.fail # "no"
           THEN /\ Emit(EvError(LLM_CALL_ERROR))
                /\ pc' = "finished"
                /\ UNCHANGED prompt_docs
           ELSE /\ prompt_docs' = o.docs
                /\ pc' = "generate"
                /\ UNCHANGED <<events, sse>>
    /\ UNCHANGED <<agent_instance, kind, question, source_docs, full_answer,
                   ask_result, relayVars>>

\* a chunk that is no str is dropped
TokenOfStrOnly(chunk) == IF chunk.isstr THEN chunk.text ELSE <<>>

\* lines 396-399
TokenOf(chunk) == chunk.text

NTokens == Cardinality({i \in 1..Len(events) : events[i].type = "token"})

\* lines 394-407: one chunk of the stream
GenChunk ==
    /\ Streaming /\ pc = "generate"
    /\ NTokens < MaxTokens
    /\ \E chunk \in Chunks :
        /\ full_answer' = full_answer \o TokenOf(chunk)
        /\ Emit(EvToken(TokenOf(chunk)))
        /\ calls' = [calls EXCEPT !.chunks = Append(@, chunk)]
    /\ UNCHANGED <<agent_instance, kind, question, pc, source_docs, prompt_docs,
                   ask_result, relayVars>>

GenFailAsAgentError ==
    /\ Streaming /\ pc = "generate"
    /\ Emit(EvError(AGENT_ERROR))
    /\ pc' = "finished"
    /\ calls' = [calls EXCEPT !.gen_failed = TRUE]
    /\ UNCHANGED <<agent_instance, kind, question, source_docs, prompt_docs,
                   full_answer, ask_result, relayVars>>

\* lines 431-440: the stream raises
GenFail ==
    /\ Streaming /\ pc = "generate"
    /\ Emit(EvError(LLM_CALL_ERROR))
    /\ pc' = "finished"
    /\ calls' = [calls EXCEPT !.gen_failed = TRUE]
    /\ UNCHANGED <<agent_instance, kind, question, source_docs, prompt_docs,
                   full_answer, ask_result, relayVars>>

\* lines 409-429: the stream is exhausted
GenEnd ==
    /\ Streaming /\ pc = "generate"
    /\ Emit(EvDone(full_answer, source_docs))
    /\ pc' = "finished"
    /\ UNCHANGED <<agent_instance, kind, question, source_docs, prompt_docs,
                   full_answer, calls, ask_result, relayVars>>

----------------------------------------------------------------------------
(* ServiceTicketAgent.ask and /chat *)

\* what qa_chain.invoke can do once the prompt is built
Answers == SeqsUpTo({"x", "y"}, MaxTokens)
GenOutcomes == {[fail |-> TRUE, text |-> <<>>]}
               \cup {[fail |-> FALSE, text |-> t] : t \in Answers}

\* every source returned
RespUncapped(c, ans, docs, cl) ==
    [code |-> c, answer |-> ans,
     sources |-> docs,
     scores |-> Scores(docs),
     retrieved_docs |-> Len(docs), calls |-> cl]

Resp(c, ans, docs, cl) ==
    [code |-> c, answer |-> ans,
     sources |-> SubSeq(docs, 1, Min(Len(docs), SourcesCap)),
     scores |-> SubSeq(Scores(docs), 1, Min(Len(docs), SourcesCap)),
     retrieved_docs |-> Len(docs), calls |-> cl]

\* ask(question), lines 206-293, given what each collaborator call does:
\* setup_ok for _setup_qa_chain, o1 for the search of line 219, o2 for the
\* search inside qa_chain.invoke, g for the chat model
AskResponse(q, setup_ok, o1, o2, g) ==
    IF IsBlank(q) THEN Resp(QUESTION_FORMAT_ERROR, <<>>, <<>>, NoCalls)
    ELSE IF ~setup_ok THEN Resp(AGENT_ERROR, <<>>, <<>>, NoCalls)
    ELSE IF o1.fail # "no"
        THEN Resp(RAG_RETRIEVAL_ERROR, <<>>, <<>>, SearchCalls(NoCalls, o1))
    ELSE IF NoDocs(o1.docs)
        THEN Resp(NO_RELEVANT_RESULTS, <<>>, <<>>, SearchCalls(NoCalls, o1))
    ELSE IF o2.fail # "no"
        THEN Resp(LLM_CALL_ERROR, <<>>, <<>>,
                  SearchCalls(SearchCalls(NoCalls, o1), o2))
    ELSE IF g.fail
        THEN Resp(LLM_CALL_ERROR, <<>>, <<>>,
                  [SearchCalls(SearchCalls(NoCalls, o1), o2) EXCEPT
                      !.llm = 1, !.gen_failed = TRUE])
    ELSE Resp(SUCCESS, g.text, o1.docs,
              [SearchCalls(SearchCalls(NoCalls, o1), o2) EXCEPT !.llm = 1])

\* a caller invokes agent.ask(question) on the constructed instance
CallAsk ==
    \E q \in Questions :
        /\ agent_instance = "ready"
        /\ Begin("ask", q)
        /\ pc' = "validate"
        /\ UNCHANGED <<agent_instance, relayVars>>

Ask ==
    /\ kind \in {"ask", "chat"} /\ pc = "validate"
    /\ \E setup_ok \in BOOLEAN, o1 \in SearchOutcomes, o2 \in SearchOutcomes,
          g \in GenOutcomes :
        /\ ask_result' = AskResponse(question, setup_ok, o1, o2, g)
        /\ calls' = ask_result'.calls
    /\ pc' = "finished"
    /\ UNCHANGED <<agent_instance, kind, question, events, sse, source_docs,
                   prompt_docs, full_answer, relayVars>>

\* the generator is closed or the response is sent; the agent is free again
ResetRun ==
    /\ kind' = "none"
    /\ pc' = "idle"
    /\ question' = <<>>
    /\ events' = <<>>
    /\ sse' = <<>>
    /\ source_docs' = <<>>
    /\ prompt_docs' = <<>>
    /\ full_answer' = <<>>
    /\ calls' = NoCalls
    /\ ask_result' = [code |-> -1]

Return ==
    /\ pc \in {"finished", "raised"}
    /\ ResetRun
    /\ UNCHANGED <<agent_instance, relayVars>>

----------------------------------------------------------------------------
(* Conversation store: ConversationDAO / MessageDAO over one AsyncSession    *)
(* per request. Rows flushed by a session are visible to that session only,  *)
(* until its commit.                                                         *)

Sessions == {1, 2}
Users == {"u1", "u2"}

\* the conversation table at the start: conversation 1, of user u1
ConvOwner == [c \in {1} |-> "u1"]
ConvIds == {1, 2}
DefaultTitle == <<"[new-conversation]">>

\* a lookup by id alone
GetConversationByIdOnly(conv, user) == conv \in DOMAIN conv_owner

\* get_conversation_by_id: filtered by id and by owner
GetConversationById(conv, user) ==
    conv \in DOMAIN conv_owner /\ conv_owner[conv] = user

Message(id, conv, role, content) ==
    [id |-> id, conv |-> conv, role |-> role, content |-> content]

NoTitle == <<"<None>">>

\* the row is put into the first conversation
CreateMessageInFirst(r, conv, role, content, id) ==
    [r EXCEPT !.pending = Append(@, Message(id, 1, role, content))]

\* MessageDAO.create_message: add + flush; the row gets the next id
CreateMessage(r, conv, role, content, id) ==
    [r EXCEPT !.pending = Append(@, Message(id, conv, role, content))]

CountIn(msgs, conv) == Cardinality({i \in 1..Len(msgs) : msgs[i].conv = conv})

\* MessageDAO.count_conversation_messages, as the session sees the table
CountConversationMessages(r, conv) ==
    CountIn(db_messages, conv) + CountIn(r.pending, conv)

\* ConversationDAO.update_conversation_title: only the owner's row is touched
UpdateConversationTitle(r, conv, user, title) ==
    IF GetConversationById(conv, user)
    THEN [r EXCEPT !.pending_title = title]
    ELSE r

\* a commit that writes nothing
CommitNothing(s, r) == UNCHANGED <<db_messages, conv_title>>

\* session.commit(): the flushed rows and the title become durable
Commit(s, r) ==
    /\ db_messages' = db_messages \o r.pending
    /\ conv_title' = IF r.pending_title # NoTitle
                     THEN [conv_title EXCEPT ![r.conv] = r.pending_title]
                     ELSE conv_title

Committed(r) == [r EXCEPT !.pending = <<>>, !.pending_title = NoTitle]

\* the response of a conversation endpoint, with who asked for what
NoReply ==
    [op |-> "", user |-> "", conv |-> 0, status |-> 0, title |-> NoTitle,
     messages |-> <<>>, convs |-> {}]

Reply(op, user, conv, status) ==
    [NoReply EXCEPT !.op = op, !.user = user, !.conv = conv, !.status = status]

----------------------------------------------------------------------------
(* Upstream as the relay sees it: the status of the response and the lines   *)
(* of its body                                                               *)

MaxLines == 5
WireCap == 1
MaxMsgs == 3
TitleCut == 20
TitleMax == 30
\* httpx.AsyncClient(timeout=60.0)
TimeoutSeconds == 60
\* the grain of the clock
TickSeconds == 30
\* how long a streaming call is followed
MaxElapsed == 120

\* the JSON after "data: ": unparseable text, a value that is no object, or
\* an object with some of the keys the relay reads (None: key absent)
\* (body: the rest of the object, which the relay forwards and never reads)
Payload(j, tok, ans, msg, meta) ==
    [json |-> j, token |-> tok, answer |-> ans, msg |-> msg, metadata |-> meta,
     code |-> 0, message_id |-> 0, body |-> Ev("")]

PBad == Payload("bad", None, None, None, "")
PNonDict == Payload("nondict", None, None, None, "")
PEmpty == Payload("dict", None, None, None, "")
PToken == Payload("dict", <<"t">>, None, None, "")
PDone == Payload("dict", None, <<"A">>, None, "1")
PError == Payload("dict", None, None, <<"E">>, "")

Payloads == {PBad, PNonDict, PEmpty, PToken, PDone, PError}
EventTypes == {"thinking", "sources", "token", "done", "error"}

Line(k, t, d) == [line |-> k, type |-> t, data |-> d]

\* "event: <type>", "data: <json>", the empty line, any other line
Lines == {Line("event", t, PEmpty) : t \in EventTypes}
         \cup {Line("data", "", d) : d \in Payloads}
         \cup {Line("blank", "", PEmpty), Line("other", "", PEmpty)}

\* the payloads that differ for the relay under an event type: the keys it
\* reads for that type are there or not, or the value is no object at all
PayloadsFor(t) ==
    CASE t = "token" -> {PToken, PEmpty, PNonDict, PBad}
      [] t = "done" -> {PDone, PEmpty, PNonDict, PBad}
      [] t = "error" -> {PError, PEmpty, PNonDict, PBad}
      [] t = "thinking" -> {PEmpty, PNonDict, PBad}
      [] OTHER -> {PEmpty, PBad}

\* a lookup that never finds the key
GetDefault(v, default) == default

\* dict.get(key, default)
Get(v, default) == IF v = None THEN default ELSE v

\* an event as written to the client
Out(t, d) == [type |-> t, data |-> d]

ErrorOut(c, msg) ==
    Out("error", [Payload("dict", None, None, msg, "") EXCEPT !.code = c])

DoneOut(id, meta) ==
    Out("done", [Payload("dict", None, None, None, meta) EXCEPT !.message_id = id])

\* fixed texts of the relay
AgentErrorText == <<"[agent-service-error: 503]">>
TimeoutMsg == <<"[agent-timeout]">>
TimeoutText == <<"[timeout-text]">>
ServerErrorMsg == <<"[server-error: e]">>
ServerErrorText == <<"[server-error-text: e]">>
UnavailableText == <<"[ai-unavailable]">>

----------------------------------------------------------------------------
(* Title synthesis, views.py lines 364-399 *)

RECURSIVE LStripSet(_, _)
LStripSet(t, cs) ==
    IF t = <<>> THEN t
    ELSE IF Head(t) \in cs THEN LStripSet(Tail(t), cs) ELSE t

RECURSIVE RStripSet(_, _)
RStripSet(t, cs) ==
    IF t = <<>> THEN t
    ELSE IF t[Len(t)] \in cs THEN RStripSet(SubSeq(t, 1, Len(t) - 1), cs) ELSE t

StripSet(t, cs) == RStripSet(LStripSet(t, cs), cs)

\* strip().strip('"').strip("'").strip(), then [:30]
GeneratedTitle(answer) ==
    LET t == StripSet(StripSet(StripSet(StripSet(answer, Whitespace), {"\""}),
                               {"'"}), Whitespace)
    IN  IF Len(t) > TitleMax THEN SubSeq(t, 1, TitleMax) ELSE t

\* the cut without its marker
FallbackTitleNoEllipsis(content) ==
    SubSeq(content, 1, Min(Len(content), TitleCut))

\* content[:20] + ("..." if len(content) > 20 else "")
FallbackTitle(content) ==
    SubSeq(content, 1, Min(Len(content), TitleCut))
    \o (IF Len(content) > TitleCut THEN <<".", ".", ".">> ELSE <<>>)

\* what POST /chat can do for the title request
\* answers of the model to the title prompt: quoted, quoted twice, longer
\* than the title may be
TitleAnswers ==
    {<<"'", "q", " ">>,
     <<"'", "\"", "q", "\"", "'">>,
     [i \in 1..(TitleMax + 1) |-> IF i = TitleMax THEN " " ELSE "q"]}

TitleOutcomes ==
    {[kind |-> "ok", answer |-> a] : a \in TitleAnswers \cup {None}}
    \cup {[kind |-> k, answer |-> None] :
                k \in {"non200", "bizerr", "timeout", "exception"}}

\* the questions users send: of TitleCut characters, and one longer
Contents ==
    {[i \in 1..TitleCut |-> "b"], [i \in 1..(TitleCut + 1) |-> "c"]}

----------------------------------------------------------------------------
(* create_message_stream and its event_generator *)

IdleSession ==
    [pc |-> "idle", user |-> "", conv |-> 0, content |-> <<>>,
     assistant_content |-> <<>>, event_type |-> "None", event_data |-> PEmpty,
     out |-> <<>>, pending |-> <<>>, pending_title |-> NoTitle,
     assistant_message |-> 0, created |-> {}, lines_read |-> 0,
     \* what happened to the invocation so far
     user_message |-> 0,     \* id of the user message it created
     title0 |-> NoTitle,     \* the conversation's title when it began
     count_after |-> 0,      \* messages it could see after its last assistant row
     synth |-> 0,            \* title syntheses it started
     title_outcome |-> "",   \* what POST /chat did for the done event in hand
     fault |-> "",           \* the fault met at the line in hand, if any
     bad_run |-> 0,          \* unparseable frames in a row, up to this line
     elapsed |-> 0,          \* seconds since the streaming call was opened
     idle |-> 0]             \* seconds since its last line arrived

\* lines 272-294: the ownership check, then the user message is created
RequestAs(s, user, conv, content) ==
    /\ sess[s].pc = "idle"
    /\ next_id <= MaxMsgs
    /\  LET r == [sess[s] EXCEPT !.user = user, !.conv = conv, !.content = content]
        IN  IF ~GetConversationById(conv, user)
            THEN /\ sess' = [sess EXCEPT ![s] = [r EXCEPT !.pc = "http404"]]
                 /\ UNCHANGED next_id
            ELSE /\ sess' = [sess EXCEPT ![s] =
                        [CreateMessage(r, conv, "user", content, next_id)
                            EXCEPT !.pc = "user_created",
                                   !.user_message = next_id,
                                   !.title0 = conv_title[conv]]]
                 /\ next_id' = next_id + 1
    /\ UNCHANGED <<db_messages, conv_title, engVars, title_calls, storeVars>>

\* any user asks anything in any conversation
Request(s) ==
    \E user \in Users, conv \in ConvIds, content \in Contents :
        RequestAs(s, user, conv, content)

\* the user message is left to a later commit
CommitUserDeferred(s) ==
    /\ sess[s].pc = "user_created"
    /\ sess' = [sess EXCEPT ![s].pc = "open"]
    /\ UNCHANGED <<db_messages, conv_title, next_id, engVars, title_calls, storeVars>>

\* line 295
CommitUser(s) ==
    /\ sess[s].pc = "user_created"
    /\ Commit(s, sess[s])
    /\ sess' = [sess EXCEPT ![s] = [Committed(sess[s]) EXCEPT !.pc = "open"]]
    /\ UNCHANGED <<next_id, engVars, title_calls, storeVars>>

\* every exception taken by the general handler
RaiseGeneric(r, exc) ==
    [r EXCEPT !.out = Append(@, ErrorOut(500, ServerErrorMsg)),
              !.pc = "fault_create"]

\* an exception reaches one of the handlers of lines 427-452, which first
\* yields its error event
Raise(r, exc) ==
    IF exc = "timeout"
    THEN [r EXCEPT !.out = Append(@, ErrorOut(504, TimeoutMsg)),
                   !.pc = "timeout_create"]
    ELSE [r EXCEPT !.out = Append(@, ErrorOut(500, ServerErrorMsg)),
                   !.pc = "fault_create"]

\* lines 305-323: the streaming call is opened and answers with a status,
\* or raises
Opened(r, o) ==
    CASE o = "200" -> [r EXCEPT !.pc = "reading"]
      [] o = "503" -> [r EXCEPT !.out = Append(@, ErrorOut(503, AgentErrorText)),
                                !.pc = "non200_create"]
      [] OTHER -> Raise([r EXCEPT !.fault = o], o)

OpenAs(s, o) ==
    /\ sess[s].pc = "open"
    /\ sess' = [sess EXCEPT ![s] = Opened(@, o)]
    /\ UNCHANGED <<db_messages, conv_title, next_id, engVars, title_calls, storeVars>>

OpenStream(s) == \E o \in {"200", "503", "timeout", "fault"} : OpenAs(s, o)

\* the assistant message of the non-200 branch and of the two handlers
ErrorContent(p) ==
    CASE p = "non200_create" -> AgentErrorText
      [] p = "timeout_create" -> TimeoutText
      [] OTHER -> ServerErrorText

\* the content is that of an accumulator all invocations share
CreateAssistantShared(r, content, id) ==
    LET r2 == CreateMessage(r, r.conv, "assistant", sess[1].assistant_content, id)
    IN  [r2 EXCEPT !.assistant_message = id, !.created = @ \cup {id},
                   !.count_after = CountConversationMessages(r2, r.conv)]

\* create_message of an assistant row, remembered as assistant_message
CreateAssistant(r, content, id) ==
    LET r2 == CreateMessage(r, r.conv, "assistant", content, id)
    IN  [r2 EXCEPT !.assistant_message = id, !.created = @ \cup {id},
                   !.count_after = CountConversationMessages(r2, r.conv)]

\* lines 317-321, 431-435, 447-451
CreateErrorMessage(s) ==
    /\ sess[s].pc \in {"non200_create", "timeout_create", "fault_create"}
    /\ sess' = [sess EXCEPT ![s] =
            [CreateAssistant(@, ErrorContent(@.pc), next_id) EXCEPT !.pc = "final_commit"]]
    /\ next_id' = next_id + 1
    /\ UNCHANGED <<db_messages, conv_title, engVars, title_calls, storeVars>>

\* lines 322-323, 418-419, 436, 452: commit, and the generator ends
FinalCommit(s) ==
    /\ sess[s].pc = "final_commit"
    /\ Commit(s, sess[s])
    /\ sess' = [sess EXCEPT ![s] = [Committed(sess[s]) EXCEPT !.pc = "ended"]]
    /\ UNCHANGED <<next_id, engVars, title_calls, storeVars>>

\* what the line in hand is for the relay: a data line under an event type
\* whose JSON does not parse is an unparseable frame
LineSeen(r, l) ==
    IF l.line = "data" /\ r.event_type # "None"
    THEN IF l.data.json = "bad"
         THEN [r EXCEPT !.fault = "parse", !.bad_run = @ + 1]
         ELSE [r EXCEPT !.fault = "", !.bad_run = 0]
    ELSE [r EXCEPT !.fault = ""]

\* a parse failure taken as a fault of the stream
OnLineStrict(r, l) ==
    CASE l.line = "blank" -> r
      [] l.line = "event" -> [r EXCEPT !.event_type = l.type]
      [] l.line = "data" ->
            IF r.event_type = "None" THEN r
            ELSE IF l.data.json = "bad"
                THEN Raise(r, "fault")
            ELSE [r EXCEPT !.out = Append(@, Out(r.event_type, l.data)),
                           !.event_data = l.data,
                           !.pc = "handle"]
      [] OTHER -> r

\* lines 328-341 and 421-425: one line of the body, up to the yield that
\* forwards a parsed event
OnLine(r, l) ==
    CASE l.line = "blank" -> r
      [] l.line = "event" -> [r EXCEPT !.event_type = l.type]
      [] l.line = "data" ->
            IF r.event_type = "None" THEN r
            ELSE IF l.data.json = "bad"
                THEN [r EXCEPT !.event_type = "None"]
            ELSE [r EXCEPT !.out = Append(@, Out(r.event_type, l.data)),
                           !.event_data = l.data,
                           !.pc = "handle"]
      [] OTHER -> r

\* aiter_lines() hands over the line l
Deliver(s, l) ==
    /\ sess[s].pc = "reading"
    /\ sess[s].lines_read < MaxLines
    /\ sess' = [sess EXCEPT ![s] =
            OnLine([LineSeen(sess[s], l) EXCEPT !.lines_read = @ + 1,
                                               !.idle = 0], l)]
    /\ UNCHANGED <<db_messages, conv_title, next_id, engVars, title_calls, storeVars>>

\* the upstream sends any line
ReadLine(s, l) ==
    /\ l.line = "data" => l.data \in PayloadsFor(sess[s].event_type)
    /\ Deliver(s, l)

\* httpx.TimeoutException / any other exception while reading the body
TransportError(s, exc) ==
    /\ sess[s].pc = "reading"
    /\ sess' = [sess EXCEPT ![s] = Raise([@ EXCEPT !.fault = exc], exc)]
    /\ UNCHANGED <<db_messages, conv_title, next_id, engVars, title_calls, storeVars>>

\* the body ends: the loop and the generator end
StreamEnd(s) ==
    /\ sess[s].pc = "reading"
    /\ sess' = [sess EXCEPT ![s].pc = "ended"]
    /\ UNCHANGED <<db_messages, conv_title, next_id, engVars, title_calls, storeVars>>

\* back to the loop, lines 424-425
NextLine(r) ==
    [r EXCEPT !.event_type = "None", !.event_data = PEmpty, !.pc = "reading",
              !.title_outcome = ""]

\* lines 343-419: the forwarded event is processed
Handle(s) ==
    /\ sess[s].pc = "handle"
    /\ LET r == sess[s]
           d == r.event_data
           t == r.event_type
       IN  IF t \in {"token", "done", "error"} /\ d.json = "nondict"
           THEN /\ sess' = [sess EXCEPT ![s] = Raise([r EXCEPT !.event_data = PEmpty,
                                                              !.fault = "fault"], "fault")]
                /\ UNCHANGED next_id
           ELSE CASE t = "token" ->
                    /\ sess' = [sess EXCEPT ![s] =
                          NextLine([r EXCEPT !.assistant_content = @ \o Get(d.token, <<>>)])]
                    /\ UNCHANGED next_id
                  [] t = "done" ->
                    /\ sess' = [sess EXCEPT ![s] =
                          [CreateAssistant(r, Get(d.answer, r.assistant_content), next_id)
                              EXCEPT !.pc = "count"]]
                    /\ next_id' = next_id + 1
                  [] t = "error" ->
                    /\ sess' = [sess EXCEPT ![s] =
                          [CreateAssistant(r, Get(d.msg, UnavailableText), next_id)
                              EXCEPT !.pc = "final_commit", !.event_data = PEmpty]]
                    /\ next_id' = next_id + 1
                  [] OTHER ->
                    /\ sess' = [sess EXCEPT ![s] = NextLine(r)]
                    /\ UNCHANGED next_id
    /\ UNCHANGED <<db_messages, conv_title, engVars, title_calls, storeVars>>

\* `if message_count == 2`
TitleGate(n) == n = 2

\* lines 363-364
Count(s) ==
    /\ sess[s].pc = "count"
    /\ sess' = [sess EXCEPT ![s].pc =
            IF TitleGate(CountConversationMessages(sess[s], sess[s].conv))
            THEN "title" ELSE "done_commit"]
    /\ UNCHANGED <<db_messages, conv_title, next_id, engVars, title_calls, storeVars>>

\* the title to store, given what POST /chat did
TitleFor(o, content) ==
    IF o.kind = "ok"
    THEN GeneratedTitle(Get(o.answer, <<>>))
    ELSE FallbackTitle(content)

\* lines 366-399
SynthesizeTitleAs(s, o) ==
    /\ sess[s].pc = "title"
    /\  sess' = [sess EXCEPT ![s] =
            [UpdateConversationTitle(@, @.conv, @.user, TitleFor(o, @.content))
                EXCEPT !.pc = "done_commit", !.synth = @ + 1,
                       !.title_outcome = o.kind]]
    /\ title_calls' = [title_calls EXCEPT ![sess[s].conv] = @ + 1]
    /\ UNCHANGED <<db_messages, conv_title, next_id, engVars, storeVars>>

SynthesizeTitle(s) == \E o \in TitleOutcomes : SynthesizeTitleAs(s, o)

\* line 401
DoneCommit(s) ==
    /\ sess[s].pc = "done_commit"
    /\ Commit(s, sess[s])
    /\ sess' = [sess EXCEPT ![s] = [Committed(sess[s]) EXCEPT !.pc = "done_yield"]]
    /\ UNCHANGED <<next_id, engVars, title_calls, storeVars>>

\* lines 403-408, then back to the loop
DoneYield(s) ==
    /\ sess[s].pc = "done_yield"
    /\ LET r == sess[s]
       IN  sess' = [sess EXCEPT ![s] =
                NextLine([r EXCEPT !.out = Append(@, DoneOut(r.assistant_message,
                                                             r.event_data.metadata))])]
    /\ UNCHANGED <<db_messages, conv_title, next_id, engVars, title_calls, storeVars>>

\* the request is over and its session closed; the next request starts afresh
\* (MaxLines bounds the lines the upstream sends over all requests of a slot)
Close(s) ==
    /\ sess[s].pc \in {"ended", "http404"}
    /\ sess' = [sess EXCEPT ![s] = [IdleSession EXCEPT !.lines_read = sess[s].lines_read]]
    /\ UNCHANGED <<db_messages, conv_title, next_id, engVars, title_calls, storeVars>>

----------------------------------------------------------------------------
InitEngine ==
    /\ agent_instance = "None"
    /\ kind = "none"
    /\ pc = "idle"
    /\ question = <<>>
    /\ events = <<>>
    /\ sse = <<>>
    /\ source_docs = <<>>
    /\ prompt_docs = <<>>
    /\ full_answer = <<>>
    /\ calls = NoCalls
    /\ ask_result = [code |-> -1]

\* the message table at the start: empty, or holding an earlier exchange of
\* conversation 1 (a question whose answer timed out, so no title was made)
PriorExchange == <<Message(1, 1, "user", <<"a">>),
                   Message(2, 1, "assistant", TimeoutText)>>

InitRelay ==
    /\ sess = [s \in Sessions |-> IdleSession]
    /\ db_messages \in {<<>>, PriorExchange}
    /\ conv_title = [c \in DOMAIN ConvOwner |-> DefaultTitle]
    /\ next_id = Len(db_messages) + 1
    /\ title_calls = [c \in DOMAIN ConvOwner |-> 0]
    /\ conv_owner = ConvOwner
    /\ next_conv = 2
    /\ reply = NoReply

Init == InitEngine /\ InitRelay

NextEngine ==
    \/ CallAskStream
    \/ StreamChat
    \/ Chat
    \/ CallAsk
    \/ GetAgent
    \/ Validate
    \/ Retrieve
    \/ ThinkingGenerating
    \/ SetupChain
    \/ ChainRetrieve
    \/ GenChunk
    \/ GenFail
    \/ GenEnd
    \/ Ask
    \/ Return

SpecEngine == Init /\ [][NextEngine]_vars

\* one relay invocation at a time, against any upstream
NextRelay ==
    \E s \in {1} :
        \/ Request(s)
        \/ CommitUser(s)
        \/ OpenStream(s)
        \/ CreateErrorMessage(s)
        \/ FinalCommit(s)
        \/ \E l \in Lines : ReadLine(s, l)
        \/ \E exc \in {"timeout", "fault"} : TransportError(s, exc)
        \/ StreamEnd(s)
        \/ Handle(s)
        \/ Count(s)
        \/ SynthesizeTitle(s)
        \/ DoneCommit(s)
        \/ DoneYield(s)
        \/ Close(s)

SpecRelay == Init /\ [][NextRelay]_vars

\* the next line of an upstream that sends one frame, a done or an error,
\* as /stream does once the answer is over
TurnLines(r) ==
    IF NTerminal(r.out) > 0 THEN {}
    ELSE IF r.event_type = "None"
         THEN {Line("event", "done", PEmpty), Line("event", "error", PEmpty)}
         ELSE {Line("data", "", PDone), Line("data", "", PError)}

\* what POST /chat does in the concurrent turns: it answers, or it does not
TurnTitleOutcomes ==
    {[kind |-> "ok", answer |-> <<"'", "q", " ">>],
     [kind |-> "timeout", answer |-> None]}

\* concurrent relay invocations: each request has its own session, and the
\* awaits of event_generator let the steps of two requests interleave; the
\* owner of conversation 1 sends turns to it, from two tabs, and the agent
\* answers each with one frame or not in time
NextTurns ==
    \E s \in Sessions :
        \/ RequestAs(s, "u1", 1, [i \in 1..TitleCut |-> "b"])
        \/ CommitUser(s)
        \/ \E o \in {"200", "timeout"} : OpenAs(s, o)
        \/ CreateErrorMessage(s)
        \/ FinalCommit(s)
        \/ \E l \in TurnLines(sess[s]) : ReadLine(s, l)
        \/ TransportError(s, "timeout")
        \/ NTerminal(sess[s].out) > 0 /\ StreamEnd(s)
        \/ Handle(s)
        \/ Count(s)
        \/ \E o \in TurnTitleOutcomes : SynthesizeTitleAs(s, o)
        \/ DoneCommit(s)
        \/ DoneYield(s)
        \/ Close(s)

SpecTurns == Init /\ [][NextTurns]_vars

----------------------------------------------------------------------------
(* The streaming call in time. httpx.AsyncClient(timeout=60.0) sets the      *)
(* connect, read, write and pool timeouts to 60 seconds each: a read raises  *)
(* ReadTimeout when no data arrives for that long. Time is counted in steps  *)
(* of TickSeconds, while the relay waits for a line.                         *)

\* the next line of an upstream that answers slowly: token frames, then done
SlowLines(r) ==
    IF NTerminal(r.out) > 0 THEN {}
    ELSE CASE r.event_type = "None" ->
                {Line("event", "token", PEmpty), Line("event", "done", PEmpty)}
           [] r.event_type = "token" -> {Line("data", "", PToken)}
           [] OTHER -> {Line("data", "", PDone)}

\* time passes while aiter_lines() waits, as long as the read may still wait
Tick(s) ==
    /\ sess[s].pc = "reading"
    /\ sess[s].idle < TimeoutSeconds
    /\ sess[s].elapsed < MaxElapsed
    /\ sess' = [sess EXCEPT ![s].idle = @ + TickSeconds,
                            ![s].elapsed = @ + TickSeconds]
    /\ UNCHANGED <<db_messages, conv_title, next_id, engVars, title_calls,
                   storeVars>>

\* nothing arrived for TimeoutSeconds: the read raises httpx.ReadTimeout
ReadTimeout(s) ==
    /\ sess[s].idle >= TimeoutSeconds
    /\ TransportError(s, "timeout")

\* one turn of the owner of conversation 1 against the slow upstream
NextClock ==
    \E s \in {1} :
        \/ RequestAs(s, "u1", 1, [i \in 1..TitleCut |-> "b"])
        \/ CommitUser(s)
        \/ OpenAs(s, "200")
        \/ Tick(s)
        \/ ReadTimeout(s)
        \/ /\ sess[s].idle < TimeoutSeconds
           /\ \E l \in SlowLines(sess[s]) : ReadLine(s, l)
        \/ NTerminal(sess[s].out) > 0 /\ StreamEnd(s)
        \/ CreateErrorMessage(s)
        \/ FinalCommit(s)
        \/ Handle(s)
        \/ Count(s)
        \/ SynthesizeTitleAs(s, [kind |-> "timeout", answer |-> None])
        \/ DoneCommit(s)
        \/ DoneYield(s)
        \/ Close(s)

SpecClock == Init /\ [][NextClock]_vars

\* what tells the streams of two invocations apart: the question of
\* invocation s and every fragment of its answer are made of the character s
Tag(s) == ToString(s)
OwnContent(s) == [i \in 1..TitleCut |-> Tag(s)]
OwnToken(s) == Payload("dict", <<Tag(s)>>, None, None, "")
OwnDone(s) == Payload("dict", None, <<Tag(s), Tag(s)>>, None, "1")

\* the next line of the body /stream sends for the question of invocation s:
\* token frames, then a done frame, with the answer or without
OwnLines(s) ==
    LET r == sess[s]
    IN  IF NTerminal(r.out) > 0 THEN {}
        ELSE CASE r.event_type = "None" ->
                    {Line("event", "token", PEmpty), Line("event", "done", PEmpty)}
               [] r.event_type = "token" -> {Line("data", "", OwnToken(s))}
               [] OTHER -> {Line("data", "", OwnDone(s)), Line("data", "", PEmpty)}

\* two invocations at once, each reading the answer to its own question
NextIsolation ==
    \E s \in Sessions :
        \/ RequestAs(s, "u1", 1, OwnContent(s))
        \/ CommitUser(s)
        \/ OpenAs(s, "200")
        \/ \E l \in OwnLines(s) : Deliver(s, l)
        \/ NTerminal(sess[s].out) > 0 /\ StreamEnd(s)
        \/ Handle(s)
        \/ Count(s)
        \/ SynthesizeTitleAs(s, [kind |-> "timeout", answer |-> None])
        \/ DoneCommit(s)
        \/ DoneYield(s)
        \/ Close(s)

SpecIsolation == Init /\ [][NextIsolation]_vars

----------------------------------------------------------------------------
(* The two services wired together: the relay's upstream is the agent's      *)
(* /stream endpoint, and sse is the body in flight between them.             *)

\* the msg texts of ask_stream's error events
ErrorMsg(c) ==
    CASE c = QUESTION_FORMAT_ERROR -> <<"[question-empty]">>
      [] c = RAG_RETRIEVAL_ERROR -> <<"[retrieval-failed]">>
      [] c = NO_RELEVANT_RESULTS -> <<"[no-relevant-tickets]">>
      [] c = LLM_CALL_ERROR -> <<"[model-call-failed]">>
      [] OTHER -> <<"[agent-service-error]">>

\* json.dumps(event_data) by the agent, json.loads by the relay: the object
\* with the keys of its event type
ToPayload(e) ==
    [Payload("dict",
             IF e.type = "token" THEN e.token ELSE None,
             IF e.type = "done" THEN e.answer ELSE None,
             IF e.type = "error" THEN ErrorMsg(e.code) ELSE None,
             IF e.type = "done" THEN ToString(e.retrieved_docs) ELSE "")
        EXCEPT !.code = e.code, !.body = e]

AsLine(w) ==
    IF w.line = "data" THEN Line("data", "", ToPayload(w.data))
    ELSE Line(w.line, w.type, PEmpty)

\* the call is answered by /stream: the status is 200 and its event_generator
\* starts on the question the relay posted
Connect(s) ==
    /\ sess[s].pc = "open"
    /\ Begin("stream_chat", sess[s].content)
    /\ pc' = "get_agent"
    /\ sess' = [sess EXCEPT ![s] = Opened(@, "200")]
    /\ UNCHANGED <<agent_instance, db_messages, conv_title, next_id, title_calls, storeVars>>

\* the agent is not reachable, or something in front of it answers
OpenFail(s) == \E o \in {"503", "timeout", "fault"} : OpenAs(s, o)

\* aiter_lines() hands over the next line of the body
WireRead(s) ==
    /\ sess[s].pc = "reading"
    /\ sse # <<>>
    /\ sess' = [sess EXCEPT ![s] =
            OnLine(LineSeen(sess[s], AsLine(Head(sse))), AsLine(Head(sse)))]
    /\ sse' = Tail(sse)
    /\ UNCHANGED <<agent_instance, kind, question, pc, events, source_docs,
                   prompt_docs, full_answer, calls, ask_result,
                   db_messages, conv_title, next_id, title_calls, storeVars>>

\* the agent is still working and nothing arrives in time
WireTimeout(s) ==
    /\ pc \notin {"finished", "raised"}
    /\ sse = <<>>
    /\ TransportError(s, "timeout")

\* the agent's generator raised: the body breaks off
WireBroken(s) ==
    /\ pc = "raised"
    /\ sse = <<>>
    /\ TransportError(s, "fault")

\* the agent's generator ended: the body ends
WireEnd(s) ==
    /\ pc = "finished"
    /\ sse = <<>>
    /\ StreamEnd(s)

\* the request is over: the connection to the agent is gone with it
\* (this specification follows one request of a slot to its end)
Hangup(s) ==
    /\ sess[s].pc \in {"ended", "http404"}
    /\ sess' = [sess EXCEPT ![s] = [IdleSession EXCEPT !.pc = "closed"]]
    /\ ResetRun
    /\ UNCHANGED <<agent_instance, db_messages, conv_title, next_id, title_calls, storeVars>>

\* the agent's generator is resumed when its last write has left the wire
CanSend == Len(sse) < WireCap

Next ==
    \/ \E s \in {1} :
        \/ Request(s)
        \/ CommitUser(s)
        \/ Connect(s)
        \/ OpenFail(s)
        \/ CreateErrorMessage(s)
        \/ FinalCommit(s)
        \/ WireRead(s)
        \/ WireTimeout(s)
        \/ WireBroken(s)
        \/ WireEnd(s)
        \/ Handle(s)
        \/ Count(s)
        \/ SynthesizeTitle(s)
        \/ DoneCommit(s)
        \/ DoneYield(s)
        \/ Hangup(s)
    \/ CanSend /\ GetAgent
    \/ CanSend /\ Validate
    \/ CanSend /\ Retrieve
    \/ CanSend /\ ThinkingGenerating
    \/ CanSend /\ SetupChain
    \/ CanSend /\ ChainRetrieve
    \/ CanSend /\ GenChunk
    \/ CanSend /\ GenFail
    \/ CanSend /\ GenEnd

Spec == Init /\ [][Next]_vars

----------------------------------------------------------------------------
(* The client goes away while the relay streams. The server then cancels the *)
(* task that runs event_generator: asyncio.CancelledError (or GeneratorExit, *)
(* when the generator is closed at a yield) is raised where it is suspended. *)

\* `except Exception`: CancelledError and GeneratorExit derive from
\* BaseException and pass it
ExceptException(exc) == exc # "cancel"

\* where event_generator can be suspended: from its start to its return
InStream == {"open", "reading", "handle", "count", "title", "done_commit",
             "done_yield", "non200_create", "timeout_create", "fault_create",
             "final_commit"}

\* views.py lines 427 and 438, then dependencies.py lines 27-30: no handler
\* takes the cancellation, so nothing more is created or committed; leaving
\* the two `async with` blocks closes the streaming call and the client, and
\* session.close() drops what was flushed and not committed
Disconnect(s) ==
    /\ sess[s].pc \in InStream
    /\ sess' = [sess EXCEPT ![s] =
            IF ExceptException("cancel")
            THEN Raise(@, "cancel")
            ELSE [@ EXCEPT !.pc = "cancelled", !.pending = <<>>,
                           !.pending_title = NoTitle]]
    /\ UNCHANGED <<db_messages, conv_title, next_id, engVars, title_calls,
                   storeVars>>

\* the relay has closed its connection to /stream
UpstreamClosed == \E s \in Sessions : sess[s].pc = "cancelled"

AgentRunning ==
    kind = "stream_chat" /\ pc \notin {"idle", "finished", "raised", "cancelled"}

\* the agent's server finds the connection closed but the generator is left
\* as it is
AgentDisconnectedUnnoticed ==
    /\ UpstreamClosed /\ AgentRunning
    /\ sse' = <<>>
    /\ UNCHANGED <<agent_instance, kind, question, pc, events, source_docs,
                   prompt_docs, full_answer, calls, ask_result, relayVars>>

\* the agent's server finds the connection closed and cancels /stream's
\* event_generator, inside ask_stream or at a yield: the handlers of
\* ticket_agent.py lines 337, 431, 442 and http_service.py line 92 are all
\* `except Exception`, so the run ends there and reads no more chunks
AgentDisconnected ==
    /\ UpstreamClosed /\ AgentRunning
    /\ IF ExceptException("cancel")
       THEN Emit(EvError(AGENT_ERROR)) /\ pc' = "finished"
       ELSE pc' = "cancelled" /\ sse' = <<>> /\ UNCHANGED events
    /\ UNCHANGED <<agent_instance, kind, question, source_docs, prompt_docs,
                   full_answer, calls, ask_result, relayVars>>

\* one turn of the owner of conversation 1, answered by /stream, which the
\* client may leave at any point
----------------------------------------------------------------------------
(* The database fails under the relay. The store is PostgreSQL through       *)
(* asyncpg (settings.py line 57): a statement that fails aborts the          *)
(* transaction, and every later statement of it is refused.                  *)

\* the session stays usable after a failed statement, with what it flushed
StatementFailedKeepsSession(r) ==
    Raise([r EXCEPT !.fault = "db"], "fault")

\* a statement of the session fails: the exception reaches the handler of
\* line 438, which sends its error event; its own create_message (line 447)
\* is refused in turn, the exception leaves the generator, and
\* session.close() (dependencies.py line 30) drops what was flushed
StatementFailed(r) ==
    [Raise([r EXCEPT !.fault = "db"], "fault") EXCEPT
        !.pc = "ended", !.pending = <<>>, !.pending_title = NoTitle]

\* the failure of the commit is not noticed
CommitFailedUnnoticed(r, usable) ==
    [r EXCEPT !.fault = "db", !.pending = <<>>, !.pending_title = NoTitle,
              !.pc = "done_yield"]

\* session.commit() of line 401 fails: the transaction is gone with the rows
\* and the title it held, and the handler of line 438 runs; the session
\* starts a new transaction for the handler's message, or the database is
\* still away and the handler fails too
CommitFailed(r, usable) ==
    IF usable
    THEN Raise([r EXCEPT !.fault = "db", !.pending = <<>>,
                         !.pending_title = NoTitle], "fault")
    ELSE StatementFailed(r)

\* create_message (356), count_conversation_messages (363) or
\* update_conversation_title (384, 395) fails on the done path
DbFail(s) ==
    /\ \/ sess[s].pc = "handle" /\ sess[s].event_type = "done"
       \/ sess[s].pc \in {"count", "title"}
    /\ sess' = [sess EXCEPT ![s] = StatementFailed(@)]
    /\ UNCHANGED <<db_messages, conv_title, next_id, engVars, title_calls,
                   storeVars>>

CommitFails(s) ==
    /\ sess[s].pc = "done_commit"
    /\ \E usable \in BOOLEAN :
            sess' = [sess EXCEPT ![s] = CommitFailed(@, usable)]
    /\ UNCHANGED <<db_messages, conv_title, next_id, engVars, title_calls,
                   storeVars>>

\* one turn after the other of the owner of conversation 1, each answered
\* with one frame, while the database may fail and the client may leave
NextFaults ==
    \E s \in {1} :
        \/ RequestAs(s, "u1", 1, [i \in 1..TitleCut |-> "b"])
        \/ CommitUser(s)
        \/ OpenAs(s, "200")
        \/ \E l \in TurnLines(sess[s]) : ReadLine(s, l)
        \/ NTerminal(sess[s].out) > 0 /\ StreamEnd(s)
        \/ Handle(s)
        \/ Count(s)
        \/ \E o \in TurnTitleOutcomes : SynthesizeTitleAs(s, o)
        \/ DoneCommit(s)
        \/ DoneYield(s)
        \/ CreateErrorMessage(s)
        \/ FinalCommit(s)
        \/ Close(s)
        \/ DbFail(s)
        \/ CommitFails(s)
        \/ Disconnect(s)

SpecFaults == Init /\ [][NextFaults]_vars

NextCancel ==
    \/ \E s \in {1} :
        \/ RequestAs(s, "u1", 1, [i \in 1..TitleCut |-> "b"])
        \/ CommitUser(s)
        \/ Connect(s)
        \/ FinalCommit(s)
        \/ WireRead(s)
        \/ WireEnd(s)
        \/ Handle(s)
        \/ Count(s)
        \/ SynthesizeTitleAs(s, [kind |-> "timeout", answer |-> None])
        \/ DoneCommit(s)
        \/ DoneYield(s)
        \/ Hangup(s)
        \/ Disconnect(s)
    \/ CanSend /\ GetAgent
    \/ CanSend /\ Validate
    \/ CanSend /\ Retrieve
    \/ CanSend /\ ThinkingGenerating
    \/ CanSend /\ SetupChain
    \/ CanSend /\ ChainRetrieve
    \/ CanSend /\ GenChunk
    \/ CanSend /\ GenFail
    \/ CanSend /\ GenEnd
    \/ AgentDisconnected

\* the agent's server reports a closed connection to the task that serves it
SpecCancel == Init /\ [][NextCancel]_vars /\ WF_vars(AgentDisconnected)

----------------------------------------------------------------------------
(* The conversation endpoints of views.py. Each request has its own session *)
(* and at most one commit, so each is one step.                             *)

\* the name a user gives a conversation
Titles == {<<"[renamed]">>}

\* MessageDAO.get_conversation_messages
GetConversationMessages(conv) ==
    SelectSeq(db_messages, LAMBDA m : m.conv = conv)

\* ConversationDAO.get_user_conversations
GetUserConversations(user) ==
    {c \in DOMAIN conv_owner : conv_owner[c] = user}

\* a delete filtered by id alone
DeletedRowsById(conv, user) == {c \in DOMAIN conv_owner : c = conv}

\* ConversationDAO.delete_conversation: the rows that
\* "delete ... where id = conversation_id and user_id = user_id" removes
DeletedRows(conv, user) ==
    {c \in DOMAIN conv_owner : c = conv /\ conv_owner[c] = user}

\* an invocation of the relay is at work in the conversation
AtWork(conv) ==
    \E s \in Sessions :
        /\ sess[s].conv = conv
        /\ sess[s].pc \notin {"idle", "http404", "ended", "closed"}

\* POST /conversations
CreateConversation(user, title) ==
    /\ next_conv \in ConvIds
    /\ conv_owner' = [c \in DOMAIN conv_owner \cup {next_conv} |->
                        IF c = next_conv THEN user ELSE conv_owner[c]]
    /\ conv_title' = [conv_title EXCEPT ![next_conv] = title]
    /\ next_conv' = next_conv + 1
    /\ reply' = [Reply("create", user, next_conv, 201) EXCEPT !.title = title]
    /\ UNCHANGED <<sess, db_messages, next_id, title_calls, engVars>>

\* GET /conversations
GetConversations(user) ==
    /\ reply' = [Reply("list", user, 0, 200) EXCEPT
                        !.convs = GetUserConversations(user)]
    /\ UNCHANGED <<sess, db_messages, conv_title, next_id, title_calls,
                   conv_owner, next_conv, engVars>>

\* GET /conversations/{id}
GetConversation(user, conv) ==
    /\ reply' = IF GetConversationById(conv, user)
                THEN [Reply("get", user, conv, 200) EXCEPT
                            !.title = conv_title[conv]]
                ELSE Reply("get", user, conv, 404)
    /\ UNCHANGED <<sess, db_messages, conv_title, next_id, title_calls,
                   conv_owner, next_conv, engVars>>

\* PUT /conversations/{id}: the rename
UpdateConversation(user, conv, title) ==
    /\ LET r == UpdateConversationTitle(
                    [IdleSession EXCEPT !.user = user, !.conv = conv],
                    conv, user, title)
       IN  IF GetConversationById(conv, user)
           THEN /\ Commit(0, r)
                /\ reply' = [Reply("update", user, conv, 200) EXCEPT
                                    !.title = title]
           ELSE /\ reply' = Reply("update", user, conv, 404)
                /\ UNCHANGED <<db_messages, conv_title>>
    /\ UNCHANGED <<sess, next_id, title_calls, conv_owner, next_conv, engVars>>

\* POST /conversations/{id}/delete. What becomes of the messages of the row
\* is decided by the message table's foreign key: they go with it, or stay
\* behind without a conversation. So is the fate of an invocation whose
\* conversation is deleted under it: a conversation is deleted here when no
\* invocation is at work in it.
DeleteConversation(user, conv) ==
    /\ ~AtWork(conv)
    /\ LET rows == DeletedRows(conv, user)
       IN  IF rows # {}
           THEN /\ conv_owner' = [c \in DOMAIN conv_owner \ rows |-> conv_owner[c]]
                /\ conv_title' = [c \in DOMAIN conv_title |->
                                    IF c \in rows THEN DefaultTitle
                                    ELSE conv_title[c]]
                /\ \E cascade \in BOOLEAN :
                        db_messages' =
                            IF cascade
                            THEN SelectSeq(db_messages, LAMBDA m : m.conv \notin rows)
                            ELSE db_messages
                /\ reply' = Reply("delete", user, conv, 200)
           ELSE /\ reply' = Reply("delete", user, conv, 404)
                /\ UNCHANGED <<conv_owner, conv_title, db_messages>>
    /\ UNCHANGED <<sess, next_id, title_calls, next_conv, engVars>>

\* GET /conversations/{id}/messages
GetMessages(user, conv) ==
    /\ reply' = IF GetConversationById(conv, user)
                THEN [Reply("messages", user, conv, 200) EXCEPT
                            !.messages = GetConversationMessages(conv)]
                ELSE Reply("messages", user, conv, 404)
    /\ UNCHANGED <<sess, db_messages, conv_title, next_id, title_calls,
                   conv_owner, next_conv, engVars>>

\* the tables at the start: conversation 1 of u1, with or without an earlier
\* exchange; the second conversation is created by whoever asks first
InitStore ==
    /\ InitEngine
    /\ sess = [s \in Sessions |-> IdleSession]
    /\ db_messages \in {<<>>, PriorExchange}
    /\ conv_title = [c \in ConvIds |-> DefaultTitle]
    /\ next_id = Len(db_messages) + 1
    /\ title_calls = [c \in ConvIds |-> 0]
    /\ conv_owner = ConvOwner
    /\ next_conv = 2
    /\ reply = NoReply

\* any user calls any endpoint on any conversation, while one invocation of
\* the relay, by any user on any conversation, takes its steps
NextStore ==
    \/ \E user \in Users :
        \/ \E title \in Titles : CreateConversation(user, title)
        \/ GetConversations(user)
        \/ \E conv \in ConvIds :
            \/ GetConversation(user, conv)
            \/ \E title \in Titles : UpdateConversation(user, conv, title)
            \/ DeleteConversation(user, conv)
            \/ GetMessages(user, conv)
    \/ \E s \in {1} :
        \/ \E user \in Users, conv \in ConvIds :
                RequestAs(s, user, conv, [i \in 1..TitleCut |-> "b"])
        \/ CommitUser(s)
        \/ \E o \in {"200", "timeout"} : OpenAs(s, o)
        \/ CreateErrorMessage(s)
        \/ FinalCommit(s)
        \/ \E l \in TurnLines(sess[s]) : ReadLine(s, l)
        \/ NTerminal(sess[s].out) > 0 /\ StreamEnd(s)
        \/ Handle(s)
        \/ Count(s)
        \/ \E o \in TurnTitleOutcomes : SynthesizeTitleAs(s, o)
        \/ DoneCommit(s)
        \/ DoneYield(s)
        \/ Close(s)

SpecStore == InitStore /\ [][NextStore]_vars

----------------------------------------------------------------------------
(* Properties *)

\* the sequence ends with a terminal event and holds no other one
OneTerminalLast(seq) ==
    /\ seq # <<>>
    /\ seq[Len(seq)].type \in Terminal
    /\ NTerminal(seq) = 1

IsTokenEvent(e) == e.type = "token"
IsEventLine(w) == w.line = "event"

\* the assistant messages an invocation created that are committed
Durable(s) ==
    {id \in sess[s].created :
        \E i \in 1..Len(db_messages) :
            /\ db_messages[i].id = id
            /\ db_messages[i].role = "assistant"
            /\ db_messages[i].conv = sess[s].conv}

\* C1: a relay invocation that passed the ownership check and ran to its end
\* has persisted exactly one assistant message, whatever the upstream did.
C1_ExactlyOneAssistantMessage ==
    \A s \in Sessions :
        sess[s].pc = "ended" => Cardinality(Durable(s)) = 1

\* C2: once the client has received a terminal event (done or error), the
\* assistant message of that invocation is durable.
C2_TerminalImpliesDurable ==
    \A s \in Sessions :
        (\E i \in 1..Len(sess[s].out) : sess[s].out[i].type \in Terminal)
            => Durable(s) # {}

\* C3: the events forwarded to the client hold exactly one terminal event, it
\* is the last one, and no done follows an error nor an error a done.
C3_OneTerminalEventLast ==
    \A s \in Sessions :
        LET o == sess[s].out
        IN  /\ \A i \in 1..Len(o) : o[i].type \in Terminal => i = Len(o)
            /\ sess[s].pc = "ended" => OneTerminalLast(o)

\* C4: the upstream done is not forwarded as received; the client gets a
\* single done, after the assistant message is persisted and the title gate
\* evaluated, carrying the persisted message's id.
C4_DoneForwardedOnceAugmented ==
    \A s \in Sessions :
        LET o == sess[s].out
            dones == {i \in 1..Len(o) : o[i].type = "done"}
        IN  /\ Cardinality(dones) <= 1
            /\ \A i \in dones :
                /\ o[i].data.message_id \in Durable(s)
                /\ sess[s].pc \notin {"handle", "count", "title", "done_commit"}

\* C5: every event sequence of ask_stream, and of /stream, ends with exactly
\* one terminal event; no fault escapes without one.
C5_EverySequenceEndsWithOneTerminal ==
    (Streaming /\ pc \in {"finished", "raised"}) =>
        /\ pc # "raised"
        /\ OneTerminalLast(events)
        /\ kind = "stream_chat" => OneTerminalLast(SelectSeq(sse, IsEventLine))

Successful == Streaming /\ pc = "finished" /\ events # <<>>
              /\ events[Len(events)].type = "done"

\* C6 (as amended): a successful run of ask_stream emits
\* Thinking Sources Thinking Token* Done, with Done once and last.
C6_SuccessPattern ==
    Successful =>
        LET n == Len(events)
        IN  /\ n >= 4
            /\ events[1] = EvThinking("retrieving")
            /\ events[2].type = "sources"
            /\ events[3] = EvThinking("generating")
            /\ \A i \in 4..(n - 1) : events[i].type = "token"
            /\ NTerminal(events) = 1

\* C6 (as stated): a successful run of ask_stream emits
\* Thinking Thinking? Sources Token* Done.
C6_OriginalPattern ==
    Successful =>
        LET n == Len(events)
        IN  \E k \in {1, 2} :
                /\ n >= k + 2
                /\ \A i \in 1..k : events[i].type = "thinking"
                /\ events[k + 1].type = "sources"
                /\ \A i \in (k + 2)..(n - 1) : events[i].type = "token"
                /\ events[n].type = "done"

C6_Witness == Successful /\ Len(events) = 6

\* empty, whitespace-only or null, said without the model's validation
BlankQuestion(q) == q = None \/ \A i \in 1..Len(q) : q[i] \in Whitespace

\* C7: for an empty, whitespace-only or null question, ask_stream emits one
\* QUESTION_FORMAT_ERROR error and nothing else, ask returns that code, and no
\* retrieval or generation call is made.
C7_BlankQuestionRejected ==
    (kind # "none" /\ BlankQuestion(question)) =>
        /\ calls = NoCalls
        /\ Streaming => events \in {<<>>, <<EvError(QUESTION_FORMAT_ERROR)>>}
        /\ (Streaming /\ pc = "finished") => events = <<EvError(QUESTION_FORMAT_ERROR)>>
        /\ (~Streaming /\ pc = "finished") =>
                /\ ask_result.code = QUESTION_FORMAT_ERROR
                /\ ask_result.calls = NoCalls

C7_Witness ==
    /\ kind = "ask_stream" /\ pc = "finished"
    /\ question = <<" ", " ">>
    /\ events = <<EvError(QUESTION_FORMAT_ERROR)>>

FirstSearchEmpty(c) ==
    /\ c.searches # <<>>
    /\ c.searches[1] = [fail |-> "no", docs |-> <<>>]

\* C8: when retrieval returns zero documents, the run ends with one error,
\* NO_RELEVANT_RESULTS, with no sources event, no token event and no
\* generation call.
C8_NoResultsError ==
    /\ (Streaming /\ FirstSearchEmpty(calls)) =>
            /\ pc = "finished"
            /\ events = <<EvThinking("retrieving"), EvError(NO_RELEVANT_RESULTS)>>
            /\ calls.llm = 0
            /\ Len(calls.searches) = 1
    /\ (~Streaming /\ pc = "finished" /\ FirstSearchEmpty(ask_result.calls)) =>
            /\ ask_result.code = NO_RELEVANT_RESULTS
            /\ ask_result.calls.llm = 0
            /\ Len(ask_result.calls.searches) = 1

C8_Witness ==
    /\ Streaming /\ pc = "finished" /\ FirstSearchEmpty(calls)
    /\ question = <<"a">>

\* C9: whenever an embedding or search call fails during a run, at whichever
\* point it is made, the run ends with error RAG_RETRIEVAL_ERROR.
C9_SearchFailureIsRetrievalError ==
    (pc = "finished"
     /\ \E i \in 1..Len(calls.searches) : calls.searches[i].fail # "no") =>
        IF Streaming
        THEN events[Len(events)] = EvError(RAG_RETRIEVAL_ERROR)
        ELSE ask_result.code = RAG_RETRIEVAL_ERROR

\* C10: if the generation stream fails after n tokens, ask_stream ends with
\* one LLM_CALL_ERROR error; the n tokens stay in the sequence, in order, and
\* no done is emitted.
C10_GenerationFailure ==
    (Streaming /\ calls.gen_failed) =>
        /\ pc = "finished"
        /\ events[Len(events)] = EvError(LLM_CALL_ERROR)
        /\ NTerminal(events) = 1
        /\ SelectSeq(events, IsTokenEvent)
            = [i \in 1..Len(calls.chunks) |-> EvToken(calls.chunks[i].text)]

C10_Witness ==
    /\ Streaming /\ calls.gen_failed
    /\ Len(calls.chunks) = 2
    /\ calls.chunks[1] # calls.chunks[2]

\* C11: in a relay invocation that persisted its assistant message, title
\* synthesis fires if and only if the conversation then holds exactly 2
\* messages; when it does not fire, the invocation leaves the title as it was.
C11_TitleIffCountIsTwo ==
    \A s \in Sessions :
        sess[s].pc = "ended" /\ sess[s].created # {} =>
            /\ (sess[s].synth > 0) <=> (sess[s].count_after = 2)
            /\ sess[s].synth = 0 => conv_title[sess[s].conv] = sess[s].title0

\* C12: under every interleaving of relay invocations on a conversation,
\* title synthesis is invoked at most once for it: no two invocations both
\* observe a message count of 2.
C12_TitleAtMostOncePerConversation ==
    \A c \in DOMAIN ConvOwner : title_calls[c] <= 1

\* two turns in flight: one has counted 2 and holds its assistant row
\* uncommitted, the other has flushed its own assistant row and counts
C12_Witness ==
    /\ sess[1].pc = "done_commit" /\ sess[1].synth = 1
    /\ sess[2].pc = "count" /\ sess[2].conv = sess[1].conv
    /\ sess[2].count_after = 3

\* C13: once a relay invocation on a conversation has run to its end, title
\* synthesis has been invoked exactly once for that conversation.
C13_TitleExactlyOncePerConversation ==
    \A s \in Sessions :
        sess[s].pc = "ended" => title_calls[sess[s].conv] = 1

\* the question itself up to 20 characters, else its first 20 and "..."
TruncatedQuestion(q) ==
    IF Len(q) <= 20 THEN q ELSE SubSeq(q, 1, 20) \o <<".", ".", ".">>

TitleFailures == {"non200", "bizerr", "timeout", "exception"}

QuoteOrSpace == Whitespace \cup {"'", "\""}

\* C15: every title that title synthesis writes, generated or fallback, has
\* at most 30 characters, and a generated title neither begins nor ends
\* with whitespace or a quotation mark.
C15_TitleBoundedAndClean ==
    \A s \in Sessions :
        sess[s].pc = "done_commit" /\ sess[s].title_outcome # "" =>
            LET t == sess[s].pending_title
            IN  /\ Len(t) <= 30
                /\ sess[s].title_outcome = "ok" /\ t # <<>> =>
                        /\ t[1] \notin QuoteOrSpace
                        /\ t[Len(t)] \notin QuoteOrSpace

\* the user message of invocation s is committed
UserMessageDurable(s) ==
    \E i \in 1..Len(db_messages) :
        db_messages[i] = Message(sess[s].user_message, sess[s].conv, "user",
                                 sess[s].content)

\* C16: in every state where the streaming call to the agent is about to be
\* opened, has started or has failed, the invocation's user message is
\* committed.
C16_UserMessageDurableBeforeUpstream ==
    \A s \in Sessions :
        sess[s].pc \notin {"idle", "http404", "user_created", "closed"} =>
            UserMessageDurable(s)

\* the call failed with a timeout before anything was streamed
C16_Witness ==
    /\ sess[1].pc = "timeout_create"
    /\ sess[1].created = {}
    /\ UserMessageDurable(1)

Owns(user, conv) == conv \in DOMAIN ConvOwner /\ ConvOwner[conv] = user

\* C17: a request for a conversation that does not exist or belongs to
\* someone else ends with the not-found fault at once: no call to the agent
\* is made and no user message, assistant message or title is flushed or
\* committed, then or until the request is over.
C17_NotFoundBeforeAnyEffect ==
    [][\A s \in Sessions :
        /\ (/\ sess[s].pc = "idle" /\ sess'[s].pc # "idle"
            /\ ~Owns(sess'[s].user, sess'[s].conv)) =>
                /\ sess'[s].pc = "http404"
                /\ sess'[s].pending = <<>>
                /\ sess'[s].pending_title = NoTitle
                /\ sess'[s].out = <<>>
                /\ UNCHANGED <<db_messages, conv_title, next_id, engVars>>
        /\ (sess[s].pc = "http404" /\ sess'[s] # sess[s]) =>
                /\ sess'[s].pc \in {"idle", "closed"}
                /\ UNCHANGED <<db_messages, conv_title, next_id, engVars>>
      ]_vars

\* someone else's conversation was asked for
C17_Witness ==
    /\ sess[1].pc = "http404"
    /\ sess[1].conv \in DOMAIN ConvOwner
    /\ sess[1].user # ConvOwner[sess[1].conv]

\* C18: on an upstream error event the relay, having forwarded the event,
\* persists an assistant message whose content is the event's msg, commits
\* and ends: it reads no further line and sends no further event.
C18_UpstreamErrorPersistedAndStops ==
    [][\A s \in Sessions :
        LET r == sess[s]
            r2 == sess'[s]
        IN  /\ (/\ r.pc = "handle" /\ r.event_type = "error"
                /\ r.event_data.json = "dict" /\ r.event_data.msg # None
                /\ r2 # r) =>
                    /\ r.out[Len(r.out)] = Out("error", r.event_data)
                    /\ r2.pc = "final_commit"
                    /\ r2.out = r.out
                    /\ r2.pending = Append(r.pending,
                            Message(next_id, r.conv, "assistant", r.event_data.msg))
            /\ (r.pc = "final_commit" /\ r2 # r) =>
                    /\ r2.pc = "ended"
                    /\ r2.out = r.out /\ r2.lines_read = r.lines_read
                    /\ db_messages' = db_messages \o r.pending
                    /\ sse' = sse
            /\ (r.pc = "ended" /\ r2 # r) =>
                    /\ r2.pc \in {"idle", "closed"}
                    /\ UNCHANGED <<db_messages, conv_title>>
      ]_vars

\* a token was relayed, then the error; its msg is the committed answer
C18_Witness ==
    /\ sess[1].pc = "ended"
    /\ Len(sess[1].out) = 2
    /\ sess[1].out[1].type = "token"
    /\ sess[1].out[2] = Out("error", PError)
    /\ \E i \in 1..Len(db_messages) :
          db_messages[i] = Message(sess[1].assistant_message, sess[1].conv,
                                   "assistant", PError.msg)

\* the error events with the given code among those sent to the client
ErrorsWithCode(seq, c) ==
    {i \in 1..Len(seq) : seq[i].type = "error" /\ seq[i].data.code = c}

\* C19: when the call to the agent times out, before the first event or
\* after tokens were relayed, the relay sends one error event with code 504
\* as its last event, persists the fixed timeout text as the assistant
\* message, and ends.
C19_TimeoutYields504 ==
    \A s \in Sessions :
        sess[s].fault = "timeout" =>
            LET r == sess[s]
                m == Message(r.assistant_message, r.conv, "assistant", TimeoutText)
            IN  /\ r.pc \in {"timeout_create", "final_commit", "ended"}
                /\ r.out # <<>>
                /\ r.out[Len(r.out)] = ErrorOut(504, TimeoutMsg)
                /\ Cardinality(ErrorsWithCode(r.out, 504)) = 1
                /\ r.pc = "final_commit" => r.pending = <<m>>
                /\ r.pc = "ended" =>
                        \E i \in 1..Len(db_messages) : db_messages[i] = m

\* a token was relayed before the timeout
C19_Witness ==
    /\ sess[1].fault = "timeout"
    /\ sess[1].pc = "ended"
    /\ Len(sess[1].out) = 2
    /\ sess[1].out[1].type = "token"

\* C20: when a transport or parse fault other than a timeout occurs, the
\* relay sends one error event with code 500 as its last event, persists
\* the generic failure text as the assistant message, and ends.
C20_OtherFaultYields500 ==
    \A s \in Sessions :
        sess[s].fault \in {"fault", "parse"} =>
            LET r == sess[s]
                m == Message(r.assistant_message, r.conv, "assistant", ServerErrorText)
            IN  /\ r.pc \in {"fault_create", "final_commit", "ended"}
                /\ r.out # <<>>
                /\ r.out[Len(r.out)] = ErrorOut(500, ServerErrorMsg)
                /\ Cardinality(ErrorsWithCode(r.out, 500)) = 1
                /\ r.pc = "final_commit" => r.pending = <<m>>
                /\ r.pc = "ended" =>
                        \E i \in 1..Len(db_messages) : db_messages[i] = m

\* C21: a single unparseable frame of a non-terminal event type is skipped:
\* nothing is forwarded, the accumulator and the store are as they were, and
\* the relay is back at its read loop in the state a completed frame leaves,
\* so that the frames that follow are forwarded and processed as usual.
C21_SingleBadFrameSkipped ==
    [][\A s \in Sessions :
        LET r == sess[s]
            r2 == sess'[s]
        IN  (/\ r.pc = "reading" /\ r.bad_run = 0 /\ r2.bad_run = 1
             /\ r.event_type \notin Terminal) =>
                /\ r2 = [r EXCEPT !.event_type = "None", !.fault = "parse",
                                  !.bad_run = 1, !.lines_read = @ + 1]
                /\ UNCHANGED <<db_messages, conv_title, next_id>>
      ]_vars

\* a token was relayed, then a frame that does not parse arrived
C21_Witness ==
    /\ sess[1].pc = "reading" /\ sess[1].fault = "parse"
    /\ sess[1].bad_run = 1
    /\ sess[1].out = <<Out("token", PToken)>>
    /\ sess[1].assistant_content = PToken.token

\* C22: a second unparseable frame in a row, or an unparseable frame whose
\* event type is done or error, is taken as a fault of the stream: the relay
\* sends an error event with code 500 and goes on to persist the generic
\* failure text and to end.
C22_RepeatedOrTerminalBadFrameIsFault ==
    [][\A s \in Sessions :
        LET r == sess[s]
            r2 == sess'[s]
        IN  (/\ r.pc = "reading" /\ r2.bad_run = r.bad_run + 1
             /\ (r2.bad_run >= 2 \/ r.event_type \in Terminal)) =>
                /\ r2.pc = "fault_create"
                /\ r2.out = Append(r.out, ErrorOut(500, ServerErrorMsg))
      ]_vars

AskFinished == kind \in {"ask", "chat"} /\ pc = "finished"

\* C29: ask returns a response for every question and every collaborator
\* failure. Its code is that of the first stage that failed: validation
\* (QUESTION_FORMAT_ERROR), building the chain (AGENT_ERROR), retrieval
\* (RAG_RETRIEVAL_ERROR, or NO_RELEVANT_RESULTS for an empty result),
\* running the chain (LLM_CALL_ERROR); it is 0 exactly when none failed, and
\* then the sources are the first documents retrieved, at most 5 of them.
C29_AskCodeIsFirstFailedStage ==
    AskFinished =>
        LET c == ask_result.code
            sr == calls.searches
        IN  /\ c \in {SUCCESS, QUESTION_FORMAT_ERROR, AGENT_ERROR,
                      RAG_RETRIEVAL_ERROR, NO_RELEVANT_RESULTS, LLM_CALL_ERROR}
            /\ (c = QUESTION_FORMAT_ERROR) <=> BlankQuestion(question)
            /\ BlankQuestion(question) => calls = NoCalls
            /\ ~BlankQuestion(question) =>
                /\ (c = AGENT_ERROR) <=> (sr = <<>>)
                /\ (c = RAG_RETRIEVAL_ERROR) <=>
                        (Len(sr) = 1 /\ sr[1].fail # "no")
                /\ (c = NO_RELEVANT_RESULTS) <=>
                        (Len(sr) = 1 /\ sr[1].fail = "no" /\ sr[1].docs = <<>>)
                /\ (c = LLM_CALL_ERROR) <=>
                        (Len(sr) = 2 /\ (sr[2].fail # "no" \/ calls.gen_failed))
                /\ (c = SUCCESS) <=>
                        (/\ Len(sr) = 2 /\ sr[2].fail = "no"
                         /\ calls.llm = 1 /\ ~calls.gen_failed)
            /\ c = SUCCESS =>
                /\ Len(ask_result.sources) <= 5
                /\ Len(ask_result.sources) <= Len(calls.searches[1].docs)
                /\ \A i \in 1..Len(ask_result.sources) :
                        ask_result.sources[i] = calls.searches[1].docs[i]
                /\ ask_result.retrieved_docs = Len(calls.searches[1].docs)

\* six documents were retrieved and five are returned
C29_Witness ==
    /\ AskFinished /\ ask_result.code = SUCCESS
    /\ ask_result.retrieved_docs = 6
    /\ Len(ask_result.sources) = 5

\* the score the sources should show for a distance
OneMinus(distance) ==
    IF distance.present THEN Num(1 - distance.value) ELSE NoValue

\* the scores are those of the documents, one by one in the order given
ScoresFollow(docs, scores) ==
    /\ Len(scores) = Len(docs)
    /\ \A i \in 1..Len(docs) : scores[i] = OneMinus(DistanceOf(docs[i]))

\* C30: in the sources of ask_stream and of ask, the score of every document
\* whose distance is present, a distance of 0 included, is 1 - distance; it
\* is null only when the distance is absent; sources and scores are in
\* retrieval order.
C30_ScoreIsOneMinusDistance ==
    /\ \A k \in 1..Len(events) :
            events[k].type = "sources" =>
                /\ ScoresFollow(events[k].items, events[k].scores)
                /\ \A i \in 1..Len(events[k].items) :
                        events[k].items[i] = source_docs[i]
    /\ (AskFinished /\ ask_result.code = SUCCESS) =>
            ScoresFollow(ask_result.sources, ask_result.scores)

\* an event of the client's stream that the relay passed on from the agent
\* (the events the relay writes itself carry no body of the agent)
IsForwarded(o) == o.data.body # Ev("")
Forwarded(s) == SelectSeq(sess[s].out, IsForwarded)

IsPrefix(a, b) == Len(a) <= Len(b) /\ SubSeq(b, 1, Len(a)) = a
Ids(msgs) == {msgs[i].id : i \in 1..Len(msgs)}
Rows(msgs) == {msgs[i] : i \in 1..Len(msgs)}
MsgsOf(msgs, c) == SelectSeq(msgs, LAMBDA m : m.conv = c)

\* C27: no step of a relay invocation or of a conversation endpoint changes or
\* removes a message of a conversation that still exists: the rows of the live
\* conversations before the step are the first rows after it, and a row that
\* keeps its id keeps its conversation, role and content. The rows a step
\* adds are those of one relay invocation, in its own conversation: its user
\* message with its content, and after it the assistant rows it created.
C27_MessagesAppendOnly ==
    [][LET live == DOMAIN conv_owner'
           old == SelectSeq(db_messages, LAMBDA m : m.conv \in live)
           new == SelectSeq(db_messages', LAMBDA m : m.conv \in live)
           added == SubSeq(new, Len(old) + 1, Len(new))
       IN  /\ IsPrefix(old, new)
           /\ \A i \in 1..Len(db_messages') :
                    db_messages'[i].id \in Ids(db_messages) =>
                        db_messages'[i] \in Rows(db_messages)
           /\ added # <<>> =>
                \E s \in Sessions :
                    LET r == sess[s]
                    IN  /\ r.conv \in DOMAIN conv_owner
                        /\ r.user = conv_owner[r.conv]
                        /\ \A i \in 1..Len(added) :
                            /\ added[i].conv = r.conv
                            /\ added[i].id \notin Ids(db_messages)
                            /\ added[i].role \in {"user", "assistant"}
                            /\ added[i].role = "user" =>
                                    /\ added[i].id = r.user_message
                                    /\ added[i].content = r.content
                                    /\ i = 1
                            /\ added[i].role = "assistant" =>
                                    /\ added[i].id \in r.created
                                    /\ added[i].id > r.user_message
      ]_vars

\* a second exchange stands after the first, which is as it was
C27_Witness ==
    /\ Len(db_messages) = 4
    /\ SubSeq(db_messages, 1, 2) = PriorExchange
    /\ db_messages[3].role = "user" /\ db_messages[3].conv = 1
    /\ db_messages[4].role = "assistant" /\ db_messages[4].conv = 1
    /\ 2 \in DOMAIN conv_owner
    /\ sess[1].pc = "ended"

\* C28: the owner of a conversation never changes, and whatever happens to a
\* conversation is the owner's doing: it goes only by the owner's delete, its
\* title changes only to the name of the owner's rename or to the title an
\* invocation of the owner synthesized, its messages grow only by the rows of
\* an invocation of the owner; a request of another user for it is answered
\* not-found without title or messages, the list of another user does not
\* show it, and a relay invocation of another user creates nothing.
C28_OnlyOwnerTouchesConversation ==
    [][\A c \in DOMAIN conv_owner :
        LET o == conv_owner[c]
            gone == c \notin DOMAIN conv_owner'
        IN  /\ ~gone => conv_owner'[c] = o
            /\ gone => reply' = Reply("delete", o, c, 200)
            /\ (~gone /\ conv_title'[c] # conv_title[c]) =>
                    \/ reply' = [Reply("update", o, c, 200) EXCEPT
                                        !.title = conv_title'[c]]
                    \/ \E s \in Sessions :
                        /\ sess[s].user = o /\ sess[s].conv = c
                        /\ sess[s].synth > 0
                        /\ conv_title'[c] = sess[s].pending_title
            /\ (~gone /\ MsgsOf(db_messages', c) # MsgsOf(db_messages, c)) =>
                    \E s \in Sessions :
                        /\ sess[s].user = o /\ sess[s].conv = c
                        /\ sess[s].pending # <<>>
                        /\ MsgsOf(db_messages', c) =
                                MsgsOf(db_messages, c) \o sess[s].pending
            /\ reply'.user # o =>
                    /\ c \notin reply'.convs
                    /\ reply'.conv = c =>
                            /\ reply'.status = 404
                            /\ reply'.title = NoTitle
                            /\ reply'.messages = <<>>
            /\ \A s \in Sessions :
                    (/\ sess'[s] # sess[s]
                     /\ sess'[s].conv = c /\ sess'[s].user # o) =>
                        /\ sess'[s].pc = "http404"
                        /\ sess'[s].pending = <<>>
                        /\ sess'[s].pending_title = NoTitle
                        /\ sess'[s].out = <<>>
      ]_vars

\* the other user asked to delete conversation 1, which has its messages and
\* a title of its owner's
C28_Witness ==
    /\ reply = Reply("delete", "u2", 1, 404)
    /\ 1 \in DOMAIN conv_owner /\ conv_owner[1] = "u1"
    /\ 2 \in DOMAIN conv_owner /\ conv_owner[2] = "u2"
    /\ Len(MsgsOf(db_messages, 1)) = 2
    /\ conv_title[1] # DefaultTitle

\* a text made of the fragments of invocation s only
OwnText(s, t) == \A k \in 1..Len(t) : t[k] = Tag(s)

\* C26: under every interleaving of two invocations, what each client is sent
\* and what each invocation accumulates and persists comes from its own
\* upstream only: every event forwarded to client s is a frame of stream s,
\* the accumulator of s holds fragments of s only, and the user and assistant
\* rows s created hold the question of s and text of s.
C26_SessionsShareNoFragments ==
    \A s \in Sessions :
        LET r == sess[s]
            mine == {m \in Rows(db_messages) \cup Rows(r.pending) :
                        m.id \in r.created \cup {r.user_message}}
        IN  /\ OwnText(s, r.assistant_content)
            /\ \A i \in 1..Len(r.out) :
                    \/ r.out[i].data \in {OwnToken(s), OwnDone(s), PEmpty}
                    \/ r.out[i] = DoneOut(r.assistant_message, r.out[i].data.metadata)
            /\ \A m \in mine :
                    /\ OwnText(s, m.content)
                    /\ m.role = "assistant" => m.id \in r.created
                    /\ (m.role = "assistant" /\ r.event_data = PEmpty
                            /\ r.pc \in {"count", "title", "done_commit", "done_yield"}
                            /\ m.id = r.assistant_message) =>
                                m.content = r.assistant_content

\* while invocation 1 holds a fragment of its own, invocation 2 has persisted
\* the fragment it accumulated
C26_Witness ==
    /\ sess[1].pc = "reading"
    /\ sess[1].assistant_content = <<Tag(1)>>
    /\ sess[2].pc = "done_yield"
    /\ sess[2].event_data = PEmpty
    /\ \E m \in Rows(db_messages) :
            /\ m.id = sess[2].assistant_message
            /\ m.content = <<Tag(2)>>

TokensRelayed(r) ==
    Cardinality({i \in 1..Len(r.out) : r.out[i].type = "token"})

\* C23: when the client has gone mid-stream, after token events were relayed
\* and before a done or an error, the turn has an assistant message whose
\* content is what was accumulated.
C23_PartialContentPersistedOnDisconnect ==
    \A s \in Sessions :
        LET r == sess[s]
        IN  (/\ r.pc = "cancelled"
             /\ TokensRelayed(r) > 0
             /\ NTerminal(r.out) = 0) =>
                \E m \in Rows(db_messages) :
                    /\ m.conv = r.conv /\ m.role = "assistant"
                    /\ m.id > r.user_message
                    /\ m.content = r.assistant_content

Positions(t) == {k \in 1..Len(events) : events[k].type = t}

\* the first n elements of a sequence, or all of it
FirstOf(seq, n) == [i \in 1..(IF Len(seq) < n THEN Len(seq) ELSE n) |-> seq[i]]

\* the first search of the run returned documents
RetrievedSome ==
    /\ Streaming
    /\ Len(calls.searches) >= 1
    /\ calls.searches[1].fail = "no"
    /\ calls.searches[1].docs # <<>>

\* C31: once ask_stream has retrieved n >= 1 documents, its events hold
\* exactly one sources event; it comes before the thinking event of the
\* generation, before every token and before the terminal event, and before
\* the chain is run; its items are the first min(n, 5) documents in the order
\* retrieved and its count is n. A run that retrieved nothing has none.
C31_OneSourcesEventBeforeGeneration ==
    /\ RetrievedSome =>
        LET docs == calls.searches[1].docs
        IN  /\ Cardinality(Positions("sources")) = 1
            /\ \A k \in Positions("sources") :
                /\ events[k].items = FirstOf(docs, 5)
                /\ events[k].count = Len(docs)
                /\ \A j \in 1..Len(events) :
                        (\/ events[j].type \in {"token", "done", "error"}
                         \/ events[j].status = "generating") => k < j
    /\ (Streaming /\ ~RetrievedSome) => Positions("sources") = {}
    /\ (Streaming /\ (Len(calls.searches) > 1 \/ calls.llm > 0)) =>
            Positions("sources") # {}

\* six documents were retrieved: five are shown, six counted, and a token
\* followed
C31_Witness ==
    /\ Streaming
    /\ \E k \in Positions("sources") :
        /\ Len(events[k].items) = 5
        /\ events[k].count = 6
        /\ \E j \in Positions("token") : k < j

\* the fragments of the token events, one after the other
RECURSIVE Fragments(_)
Fragments(evs) ==
    IF evs = <<>> THEN <<>>
    ELSE (IF Head(evs).type = "token" THEN Head(evs).token ELSE <<>>)
         \o Fragments(Tail(evs))

\* C32: the answer of the done event of ask_stream is the concatenation, in
\* the order emitted, of the fragments of the run's token events, and its
\* retrieved-document count is the count of the run's sources event.
C32_DoneCarriesTokensAndCount ==
    Streaming =>
        \A k \in Positions("done") :
            /\ events[k].answer = Fragments(SubSeq(events, 1, k - 1))
            /\ Cardinality(Positions("token")) = Len(calls.chunks)
            /\ \E j \in Positions("sources") :
                    events[k].retrieved_docs = events[j].count

\* a done after the fragments x and y, in a run that retrieved six documents
C32_Witness ==
    /\ Streaming
    /\ \E k \in Positions("done") :
        /\ events[k].answer = <<"x", "y">>
        /\ events[k].retrieved_docs = 6

\* the run got as far as running the chain on a prompt
PromptBuilt == Streaming /\ calls.llm > 0

\* C35: the documents formatted into the prompt of a run are the documents of
\* its sources event, in the same order, and the run searched once.
C35_PromptFromReportedSources ==
    PromptBuilt =>
        /\ prompt_docs = source_docs
        /\ Len(calls.searches) = 1

\* the text of the chat model's answer: its chunks as str() renders them
RECURSIVE TextOf(_)
TextOf(chunks) ==
    IF chunks = <<>> THEN <<>> ELSE Head(chunks).text \o TextOf(Tail(chunks))

\* what ask returns when the collaborators do for it what they did in this
\* run of ask_stream (a search the run did not come to is of no account)
AskOnSameCalls ==
    LET sr == calls.searches
        o1 == IF Len(sr) >= 1 THEN sr[1] ELSE [fail |-> "search", docs |-> <<>>]
        o2 == IF Len(sr) >= 2 THEN sr[2] ELSE o1
        g == [fail |-> calls.gen_failed, text |-> TextOf(calls.chunks)]
    IN  AskResponse(question, TRUE, o1, o2, g)

\* the run of ask_stream has ended, and not by a fault of _setup_qa_chain
\* (which is no collaborator: it calls none)
StreamOver ==
    /\ Streaming /\ pc = "finished"
    /\ ~(/\ events[Len(events)] = EvError(AGENT_ERROR)
         /\ Len(calls.searches) = 1 /\ calls.llm = 0)

\* C36: for the same question and the same behaviour of retrieval and
\* generation, ask_stream ends with done carrying answer A and count n
\* exactly when ask returns code 0 with A and n, and ends with an error event
\* of code c exactly when ask returns c.
C36_StreamAndAskAgree ==
    StreamOver =>
        LET last == events[Len(events)]
            a == AskOnSameCalls
        IN  /\ last.type \in Terminal
            /\ (last.type = "done") <=> (a.code = SUCCESS)
            /\ last.type = "done" =>
                    /\ a.answer = last.answer
                    /\ a.retrieved_docs = last.retrieved_docs
            /\ last.type = "error" => a.code = last.code

\* both variants answered with the same two fragments
C36_Witness ==
    /\ StreamOver
    /\ events[Len(events)].type = "done"
    /\ AskOnSameCalls.code = SUCCESS
    /\ AskOnSameCalls.answer = <<"x", "y">>

\* the fragments of the token events the relay forwarded, one after the other
RECURSIVE ForwardedTokens(_)
ForwardedTokens(out) ==
    IF out = <<>> THEN <<>>
    ELSE (IF Head(out).type = "token" /\ Head(out).data.token # None
          THEN Head(out).data.token ELSE <<>>)
         \o ForwardedTokens(Tail(out))

\* C33: when the relay has persisted the assistant message of a done event,
\* its content is the answer of that event if it has one, and otherwise the
\* concatenation, in arrival order, of the fragments of the token events
\* forwarded so far; a frame that did not parse was not forwarded and adds
\* nothing.
C33_DoneContentIsAnswerOrFragments ==
    \A s \in Sessions :
        LET r == sess[s]
        IN  r.pc = "count" =>
                \E i \in 1..Len(r.pending) :
                    /\ r.pending[i].id = r.assistant_message
                    /\ r.pending[i].role = "assistant"
                    /\ r.pending[i].content =
                            IF r.event_data.answer # None
                            THEN r.event_data.answer
                            ELSE ForwardedTokens(r.out)

\* a done without answer after one forwarded fragment: the message holds
\* the fragment
C33_Witness ==
    /\ sess[1].pc = "count"
    /\ sess[1].event_data = PEmpty
    /\ ForwardedTokens(sess[1].out) = PToken.token
    /\ \E i \in 1..Len(sess[1].pending) :
            sess[1].pending[i].content = PToken.token

\* the relay has sent the done event that carries the message id
DoneHandled(r) ==
    \E i \in 1..Len(r.out) :
        r.out[i].type = "done" /\ r.out[i].data.message_id # 0

\* C37: once an invocation has handled a done event, it forwards no further
\* event and creates no further message, whatever frames the upstream sends
\* (steps that read or process a frame; a fault of the transport is none).
C37_NothingAfterDone ==
    [][\A s \in Sessions :
        LET r == sess[s]
            r2 == sess'[s]
        IN  (/\ DoneHandled(r)
             /\ r2.pc \notin {"idle", "timeout_create", "fault_create"}
             /\ r.pc \notin {"timeout_create", "fault_create", "final_commit"}) =>
                /\ r2.out = r.out
                /\ r2.created = r.created
      ]_vars

\* C34: a streaming call that has lasted longer than the timeout without a
\* terminal event is no longer being read: the relay has taken the timeout
\* path, however short the gaps between the upstream's lines were.
C34_TimeoutBoundsWholeExchange ==
    \A s \in Sessions :
        LET r == sess[s]
        IN  (/\ r.elapsed > TimeoutSeconds
             /\ r.idle < TimeoutSeconds
             /\ NTerminal(r.out) = 0) =>
                r.pc \notin {"reading", "handle"}

\* the done events with a message id that the client of r was sent
DonesWithId(r) ==
    {i \in 1..Len(r.out) : r.out[i].type = "done" /\ r.out[i].data.message_id # 0}

\* C38: a done event with a message id is in the client's stream only when
\* the assistant message of that id is committed, in the conversation of the
\* invocation; and when creating or committing the message failed, the
\* client's stream holds no done event with a message id.
C38_DoneIdNamesCommittedMessage ==
    \A s \in Sessions :
        LET r == sess[s]
        IN  /\ \A i \in DonesWithId(r) :
                \E m \in Rows(db_messages) :
                    /\ m.id = r.out[i].data.message_id
                    /\ m.role = "assistant"
                    /\ m.conv = r.conv
            /\ r.fault = "db" => DonesWithId(r) = {}

\* the client has the done with the id of the committed answer
C38_Witness ==
    /\ DonesWithId(sess[1]) # {}
    /\ sess[1].pc = "ended"
    /\ \E m \in Rows(db_messages) :
            m.id = sess[1].assistant_message /\ m.content = PDone.answer

\* the assistant rows of the turn of r that are committed
TurnAssistants(r) ==
    {m \in Rows(db_messages) :
        m.conv = r.conv /\ m.role = "assistant" /\ m.id > r.user_message}

\* C39: whatever fails or is cancelled between the creation of the assistant
\* message and the commit, the store holds the title an invocation made only
\* together with the assistant message it made, and at most one assistant
\* message for its turn.
C39_TitleAndAnswerCommittedTogether ==
    \A s \in Sessions :
        LET r == sess[s]
        IN  r.user_message # 0 =>
                /\ Cardinality(TurnAssistants(r)) <= 1
                /\ conv_title[r.conv] # r.title0 =>
                        \E m \in TurnAssistants(r) : m.id \in r.created
                /\ r.fault = "db" =>
                        /\ conv_title[r.conv] = r.title0
                        /\ \A m \in TurnAssistants(r) : m.content # PDone.answer
                /\ (r.synth = 1 /\ \E m \in TurnAssistants(r) :
                                        m.content = PDone.answer) =>
                        conv_title[r.conv] # r.title0

\* the commit failed after the title was synthesized: the store has neither
\* the answer nor the title
C39_Witness ==
    /\ sess[1].fault = "db"
    /\ sess[1].synth = 1
    /\ sess[1].pc = "ended"
    /\ conv_title[1] = sess[1].title0
    /\ TurnAssistants(sess[1]) = {}

====
